---- MODULE Spec2Model ----
(***************************************************************************)
(* Turn-resolution engine of the grid sandbox                              *)
(* (backend/src/sandbox_simulation.py, class SandboxSimulation).           *)
(*                                                                         *)
(* One simulation instance.  The public operations reset(), step() and     *)
(* apply_player_action() are the actions; step() and apply_player_action() *)
(* are coroutines that run atomically between two awaits, and the only     *)
(* await is the oracle query of _continue_turn_from, so a call is a        *)
(* sequence of atomic sections separated by the arrival of an oracle       *)
(* reply.                                                                  *)
(*                                                                         *)
(* Spec is an instance of the default two agents, with or without the      *)
(* player, and a caller that may do anything.  SpecThree is an instance    *)
(* of three autonomous agents whose oracles talk or wait, reset once: two  *)
(* agents can then address the same third one within a turn.  SpecShared   *)
(* is the instance as the service shares it: two step() coroutines that    *)
(* may overlap at the oracle query.  SpecParse runs _parse_action alone    *)
(* on an action object surrounded by prose.  SpecThreeWithPlayer is an     *)
(* instance of three agents whose last one is the player,                  *)
(* SpecSharedWithPlayer the shared instance of two agents with the player  *)
(* enabled, and SpecEnforce runs _enforce_legality alone, next to the      *)
(* function of the same name of the earlier engine.                        *)
(*                                                                         *)
(* Encodings.  Python's None / Optional[T] is a sequence of length <= 1    *)
(* (None == << >>, a value v is << v >>).  A JSON value is a string; the   *)
(* three strings NULL, NUM and LIST stand for null/absent, a hashable      *)
(* non-string and an unhashable value (list or object).  Action dicts are  *)
(* records of one shape whose unused fields are NULL, which is what        *)
(* dict.get returns for them.                                              *)
(***************************************************************************)
EXTENDS Integers, Sequences, FiniteSets, TLC

(* ---------------------- parameters and bounds -------------------------- *)
\* num_agents of the constructor, at its default
NumAgents == 2
\* grid_size of the constructor; the grid is GridSize x GridSize
GridSize == 2
\* the caller makes no further call once MaxTurn turns have been started and
\* the last of them is over (sealed or aborted)
MaxTurn == 2
\* the turns the caller of the three-agent instance starts
ThreeTurns == 1
\* the longest run of prose before and after an object in an oracle text
MaxProse == 2

(* --------------------------- basic values ------------------------------ *)
None == << >>
Some(v) == << v >>

NULL == "<null>"
NUM == "<num>"
LIST == "<list>"

IsStr(v) == v \notin {NULL, NUM, LIST}
Hashable(v) == v # LIST

Directions == <<"up", "down", "left", "right">>
DirectionSet == {"up", "down", "left", "right"}

AgentName(i) == "agent" \o ToString(i)

Abs(n) == IF n < 0 THEN -n ELSE n

\* ActionDict as the engine builds it
Act(a, d, t, m, n) == [action |-> a, direction |-> d, target |-> t, message |-> m, notes |-> n]
WaitAction == Act("wait", NULL, NULL, NULL, NULL)
MoveAction(d) == Act("move", d, NULL, NULL, NULL)
TalkAction(t, m) == Act("talk", NULL, t, m, NULL)

\* an entry of a legal action list
Legal(a, d, t, tt) == [action |-> a, direction |-> d, target |-> t, target_title |-> tt]

(* ------------------------- pure functions ------------------------------ *)
MoveDelta(direction) ==
  CASE direction = "up" -> <<0, -1>>
    [] direction = "down" -> <<0, 1>>
    [] direction = "left" -> <<-1, 0>>
    [] direction = "right" -> <<1, 0>>

\* adjacency that counts the diagonal neighbours as well
IsAdjacentOrDiagonal(a, b) ==
  /\ Abs(a.x - b.x) <= 1
  /\ Abs(a.y - b.y) <= 1
  /\ <<a.x, a.y>> # <<b.x, b.y>>

IsAdjacent(a, b) == Abs(a.x - b.x) + Abs(a.y - b.y) = 1

\* the deltas with the y axis pointing up
LegalDeltaYUp(direction) ==
  CASE direction = "up" -> <<0, 1>>
    [] direction = "down" -> <<0, -1>>
    [] direction = "left" -> <<-1, 0>>
    [] direction = "right" -> <<1, 0>>

\* the deltas of the dict literal inside _legal_actions
LegalDelta(direction) ==
  CASE direction = "up" -> <<0, -1>>
    [] direction = "down" -> <<0, 1>>
    [] direction = "left" -> <<-1, 0>>
    [] direction = "right" -> <<1, 0>>

\* the moves inside the grid, whoever stands on the destination
LegalMovesIgnoringAgents(agent, ags, grid_size) ==
  LET Open(direction) ==
        LET new_x == agent.x + LegalDelta(direction)[1]
            new_y == agent.y + LegalDelta(direction)[2]
        IN  /\ 0 <= new_x /\ new_x < grid_size
            /\ 0 <= new_y /\ new_y < grid_size
      open == SelectSeq(Directions, Open)
  IN  [k \in 1..Len(open) |-> Legal("move", open[k], NULL, NULL)]

LegalMoves(agent, ags, grid_size) ==
  LET Open(direction) ==
        LET new_x == agent.x + LegalDelta(direction)[1]
            new_y == agent.y + LegalDelta(direction)[2]
        IN  /\ 0 <= new_x /\ new_x < grid_size
            /\ 0 <= new_y /\ new_y < grid_size
            /\ ~ \E k \in 1..Len(ags) :
                   ags[k].name # agent.name /\ ags[k].x = new_x /\ ags[k].y = new_y
      open == SelectSeq(Directions, Open)
  IN  [k \in 1..Len(open) |-> Legal("move", open[k], NULL, NULL)]

LegalTalks(agent, ags) ==
  LET Near(other) == other.name # agent.name /\ IsAdjacent(agent, other)
      near == SelectSeq(ags, Near)
  IN  [k \in 1..Len(near) |-> Legal("talk", NULL, near[k].name, NULL)]

LegalActions(agent, ags, grid_size) ==
  <<Legal("wait", NULL, NULL, NULL)>> \o LegalMoves(agent, ags, grid_size) \o LegalTalks(agent, ags)

(* ------------------------- oracle text decoding ------------------------ *)
(* The oracle's text is a sequence of tokens: <<"{">>, <<"}">>, a word of  *)
(* prose <<"prose">>, or a member <<key, value>> of a JSON object (the     *)
(* separating commas go with the members).                                 *)
LBrace == <<"{">>
RBrace == <<"}">>
Prose == <<"prose">>
IsMember(tok) == Len(tok) = 2

\* re.search(r"\{.*\}", raw, re.DOTALL): leftmost "{", greedy to the last "}"
ExtractJsonBlock(raw) ==
  LET opens == {k \in 1..Len(raw) : raw[k] = LBrace}
  IN  IF opens = {} THEN None
      ELSE LET first == CHOOSE k \in opens : \A j \in opens : k <= j
               closes == {k \in 1..Len(raw) : raw[k] = RBrace /\ k > first}
           IN  IF closes = {} THEN None
               ELSE LET last == CHOOSE k \in closes : \A j \in closes : j <= k
                    IN  Some(SubSeq(raw, first, last))

\* json.loads of a block: an object is "{", members, "}"
JsonValid(block) ==
  /\ Len(block) >= 2
  /\ block[1] = LBrace
  /\ block[Len(block)] = RBrace
  /\ \A k \in 2..(Len(block) - 1) : IsMember(block[k])

\* data.get(key) on the loaded object: the last member with that key wins
JsonGet(block, key) ==
  LET hits == {k \in 2..(Len(block) - 1) : block[k][1] = key}
  IN  IF hits = {} THEN NULL
      ELSE block[CHOOSE k \in hits : \A j \in hits : j <= k][2]

Returned(v) == [raised |-> "", value |-> v]
Raised(e) == [raised |-> e, value |-> WaitAction]

ParseAction(raw) ==
  LET found == ExtractJsonBlock(raw)
  IN  IF found = None THEN Returned(WaitAction)
      ELSE LET block == found[1]
           IN  IF ~JsonValid(block) THEN Returned(WaitAction)
               ELSE LET action == JsonGet(block, "action")
                        direction == JsonGet(block, "direction")
                        target == JsonGet(block, "target")
                        message == JsonGet(block, "message")
                    IN  IF ~Hashable(action) THEN Raised("TypeError")
                        ELSE IF action \notin {"move", "talk", "wait"} THEN Returned(WaitAction)
                        ELSE IF action = "move"
                             THEN IF ~Hashable(direction) THEN Raised("TypeError")
                                  ELSE IF direction \notin DirectionSet THEN Returned(WaitAction)
                                  ELSE Returned(MoveAction(direction))
                        ELSE IF action = "talk"
                             THEN IF ~IsStr(target) \/ ~IsStr(message) THEN Returned(WaitAction)
                                  ELSE Returned(TalkAction(target, message))
                        ELSE Returned(WaitAction)

(* ------------------------- legality enforcement ------------------------ *)
LegalDirections(legal_actions) ==
  {legal_actions[k].direction : k \in {j \in 1..Len(legal_actions) : legal_actions[j].action = "move"}}

LegalTargets(legal_actions) ==
  {legal_actions[k].target : k \in {j \in 1..Len(legal_actions) : legal_actions[j].action = "talk"}}

\* a move is passed on without a look at the legal list
EnforceLegalityMovesUnchecked(action, legal_actions, agent_name) ==
  IF action.action = "move"
  THEN Returned(action)
  ELSE IF action.action = "talk"
  THEN IF action.target \notin LegalTargets(legal_actions)
       THEN Returned(Act("wait", NULL, NULL, NULL, "Illegal talk rejected"))
       ELSE Returned(action)
  ELSE Raised("UnboundLocalError")

\* The test of the target stands after the if/elif, not inside the talk
\* branch: it also runs for a move (allowed is then the set of directions
\* and the move has no target) and for a wait (allowed is then unbound).
EnforceLegality(action, legal_actions, agent_name) ==
  IF action.action = "move"
  THEN IF action.direction \notin LegalDirections(legal_actions)
       THEN Returned(Act("wait", NULL, NULL, NULL, "Illegal move rejected"))
       ELSE IF action.target \notin LegalDirections(legal_actions)
            THEN Returned(Act("wait", NULL, NULL, NULL, "Illegal talk rejected"))
            ELSE Returned(action)
  ELSE IF action.action = "talk"
  THEN IF action.target \notin LegalTargets(legal_actions)
       THEN Returned(Act("wait", NULL, NULL, NULL, "Illegal talk rejected"))
       ELSE Returned(action)
  ELSE Raised("UnboundLocalError")

\* _enforce_legality of the earlier engine, without the player: each test
\* stands inside its own branch
EarlierEnforceLegality(action, legal_actions, agent_name) ==
  IF action.action = "move"
  THEN IF action.direction \notin LegalDirections(legal_actions)
       THEN Returned(Act("wait", NULL, NULL, NULL, "Illegal move rejected"))
       ELSE Returned(action)
  ELSE IF action.action = "talk"
  THEN IF action.target \notin LegalTargets(legal_actions)
       THEN Returned(Act("wait", NULL, NULL, NULL, "Illegal talk rejected"))
       ELSE Returned(action)
  ELSE Returned(action)

(* ------------------------- player validation --------------------------- *)
\* A player action is NotADict or an action dict; its fields are JSON values.
NotADict == Act(LIST, LIST, LIST, LIST, LIST)

Greeting(alias) == "Hey " \o alias \o ", let's keep moving!"
Blank == " "

\* a talk is passed on with the message as given, usable or not
ValidatePlayerActionMessageAsGiven(action, legal_actions, agent_name) ==
  IF action = NotADict THEN Raised("ValueError: not an object")
  ELSE IF action.action = "move"
  THEN IF action.direction \notin LegalDirections(legal_actions)
       THEN Raised("ValueError: direction not allowed")
       ELSE Returned(MoveAction(action.direction))
  ELSE IF action.action = "talk"
  THEN LET hits == {k \in 1..Len(legal_actions) :
                      legal_actions[k].action = "talk" /\ legal_actions[k].target = action.target}
       IN  IF hits = {} THEN Raised("ValueError: target not available")
           ELSE LET match == legal_actions[CHOOSE k \in hits : \A j \in hits : k <= j]
                    alias == IF match.target_title \notin {NULL, ""} THEN match.target_title
                             ELSE action.target
                    message == IF ~IsStr(action.message) \/ action.message \in {"", Blank}
                               THEN Greeting(alias) ELSE action.message
                IN  Returned(TalkAction(action.target, action.message))
  ELSE IF action.action = "wait" \/ action.action = NULL THEN Returned(WaitAction)
  ELSE Raised("ValueError: unsupported action")

\* an object without an action is not taken for a wait
ValidatePlayerActionRequiringAction(action, legal_actions, agent_name) ==
  IF action = NotADict THEN Raised("ValueError: not an object")
  ELSE IF action.action = "move"
  THEN IF action.direction \notin LegalDirections(legal_actions)
       THEN Raised("ValueError: direction not allowed")
       ELSE Returned(MoveAction(action.direction))
  ELSE IF action.action = "talk"
  THEN LET hits == {k \in 1..Len(legal_actions) :
                      legal_actions[k].action = "talk" /\ legal_actions[k].target = action.target}
       IN  IF hits = {} THEN Raised("ValueError: target not available")
           ELSE LET match == legal_actions[CHOOSE k \in hits : \A j \in hits : k <= j]
                    alias == IF match.target_title \notin {NULL, ""} THEN match.target_title
                             ELSE action.target
                    message == IF ~IsStr(action.message) \/ action.message \in {"", Blank}
                               THEN Greeting(alias) ELSE action.message
                IN  Returned(TalkAction(action.target, message))
  ELSE IF action.action = "wait" THEN Returned(WaitAction)
  ELSE Raised("ValueError: unsupported action")

\* the greeting is addressed to the target by its agent name
ValidatePlayerActionGreetingByName(action, legal_actions, agent_name) ==
  IF action = NotADict THEN Raised("ValueError: not an object")
  ELSE IF action.action = "move"
  THEN IF action.direction \notin LegalDirections(legal_actions)
       THEN Raised("ValueError: direction not allowed")
       ELSE Returned(MoveAction(action.direction))
  ELSE IF action.action = "talk"
  THEN LET hits == {k \in 1..Len(legal_actions) :
                      legal_actions[k].action = "talk" /\ legal_actions[k].target = action.target}
       IN  IF hits = {} THEN Raised("ValueError: target not available")
           ELSE LET message == IF ~IsStr(action.message) \/ action.message \in {"", Blank}
                               THEN Greeting(action.target) ELSE action.message
                IN  Returned(TalkAction(action.target, message))
  ELSE IF action.action = "wait" \/ action.action = NULL THEN Returned(WaitAction)
  ELSE Raised("ValueError: unsupported action")

\* the degradation policy of the oracle applied to the player: whatever is
\* not a legal move or talk becomes a wait
ValidatePlayerActionDegrading(action, legal_actions, agent_name) ==
  IF action = NotADict THEN Returned(WaitAction)
  ELSE IF action.action = "move"
  THEN IF action.direction \notin LegalDirections(legal_actions)
       THEN Returned(WaitAction)
       ELSE Returned(MoveAction(action.direction))
  ELSE IF action.action = "talk"
  THEN LET hits == {k \in 1..Len(legal_actions) :
                      legal_actions[k].action = "talk" /\ legal_actions[k].target = action.target}
       IN  IF hits = {} THEN Returned(WaitAction)
           ELSE LET match == legal_actions[CHOOSE k \in hits : \A j \in hits : k <= j]
                    alias == IF match.target_title \notin {NULL, ""} THEN match.target_title
                             ELSE action.target
                    message == IF ~IsStr(action.message) \/ action.message \in {"", Blank}
                               THEN Greeting(alias) ELSE action.message
                IN  Returned(TalkAction(action.target, message))
  ELSE Returned(WaitAction)

ValidatePlayerAction(action, legal_actions, agent_name) ==
  IF action = NotADict THEN Raised("ValueError: not an object")
  ELSE IF action.action = "move"
  THEN IF action.direction \notin LegalDirections(legal_actions)
       THEN Raised("ValueError: direction not allowed")
       ELSE Returned(MoveAction(action.direction))
  ELSE IF action.action = "talk"
  THEN LET hits == {k \in 1..Len(legal_actions) :
                      legal_actions[k].action = "talk" /\ legal_actions[k].target = action.target}
       IN  IF hits = {} THEN Raised("ValueError: target not available")
           ELSE LET match == legal_actions[CHOOSE k \in hits : \A j \in hits : k <= j]
                    alias == IF match.target_title \notin {NULL, ""} THEN match.target_title
                             ELSE action.target
                    message == IF ~IsStr(action.message) \/ action.message \in {"", Blank}
                               THEN Greeting(alias) ELSE action.message
                IN  Returned(TalkAction(action.target, message))
  ELSE IF action.action = "wait" \/ action.action = NULL THEN Returned(WaitAction)
  ELSE Raised("ValueError: unsupported action")

(* ------------------------------ state ---------------------------------- *)
VARIABLES
  num_agents,            \* constructor argument num_agents
  player_enabled,        \* constructor argument player_agent
  player_agent_name,     \* Optional[str]
  turn,
  agents,                \* list of AgentState, in the order fixed by reset()
  conversation_log,
  debug_history,
  pending_player,        \* Optional[{agent_index, legal_actions}]
  active_turn_messages,  \* Optional[list]
  active_turn_debug,     \* Optional[list]
  calls,                 \* the step()/apply_player_action() coroutines
  last,                  \* what the most recent call returned or raised ("running": not yet)
  event,                 \* the operation that made the most recent transition
  arg,                   \* the action that operation was given, once it has read it (else None)
  processed,             \* history variable: indices whose slot was completed this turn, in order
  completed,             \* history variable: turns since reset() in which every agent was processed
  oracle_failed,         \* history variable: an oracle query has failed since reset()
  decoding,              \* _parse_action run on its own: the text it is given and its result
  enforcing              \* _enforce_legality run on its own: its arguments and its results

engine == <<player_agent_name, turn, agents, conversation_log, debug_history,
            pending_player, active_turn_messages, active_turn_debug>>
vars == <<num_agents, player_enabled, player_agent_name, turn, agents, conversation_log, debug_history,
          pending_player, active_turn_messages, active_turn_debug, calls, last, event,
          arg, processed, completed, oracle_failed, decoding, enforcing>>
ghosts == <<processed, completed, oracle_failed>>

\* no text is being decoded outside a turn
NotDecoding == [before |-> << >>, object |-> << >>, after |-> << >>, result |-> None]

\* no action is being enforced outside a turn
NotEnforcing == [action |-> WaitAction, legal_actions |-> << >>, result |-> None]

\* sorted(controllers.keys()): for fewer than ten agents the lexicographic
\* order of agent1..agentN is the numeric order
AgentNames == [i \in 1..num_agents |-> AgentName(i)]
NameSet == {AgentNames[i] : i \in 1..num_agents}

\* the coroutines that may exist side by side: one when the caller awaits
\* every call before it makes the next, two when calls may overlap
OneCoroutine == {1}
TwoCoroutines == {1, 2}
CallIds == DOMAIN calls

\* A coroutine holds its debug_entry by reference: entry number `entry` of
\* the list of traces that step() created when the turn counter became `gen`.
IdleCall ==
  [pc |-> "idle", op |-> "", idx |-> 0, gen |-> 0, entry |-> 0, legal_actions |-> << >>,
   reply |-> None]
NoCallInFlight == \A c \in CallIds : calls[c].pc = "idle"

\* the bound on the length of a behaviour
Finished == turn >= MaxTurn /\ NoCallInFlight /\ pending_player = None

\* titles of _personas_pool, by index modulo its length
PersonaTitles == <<"Alex", "Blair", "Kai", "Mira", "Ren">>

\* agent_profiles[name]["title"] as _build_controllers leaves it
ProfileTitle(name, player_name) ==
  IF player_name = Some(name) THEN "Player"
  ELSE LET i == CHOOSE k \in 1..num_agents : AgentNames[k] = name
       IN  PersonaTitles[((i - 1) % Len(PersonaTitles)) + 1]

\* the mutable fields of the instance as one value
Engine ==
  [turn |-> turn, agents |-> agents, conversation_log |-> conversation_log,
   debug_history |-> debug_history, pending_player |-> pending_player,
   active_turn_messages |-> active_turn_messages, active_turn_debug |-> active_turn_debug]

Install(e) ==
  /\ turn' = e.turn
  /\ agents' = e.agents
  /\ conversation_log' = e.conversation_log
  /\ debug_history' = e.debug_history
  /\ pending_player' = e.pending_player
  /\ active_turn_messages' = e.active_turn_messages
  /\ active_turn_debug' = e.active_turn_debug

Result(op, outcome, error) == [op |-> op, outcome |-> outcome, error |-> error]

(* ------------------------------ reset ---------------------------------- *)
Cells == {<<x, y>> : x \in 0..(GridSize - 1), y \in 0..(GridSize - 1)}

\* a draw of one cell per agent without the shuffle: cells may repeat
InitialPositionsWithRepeats == [1..num_agents -> Cells]

\* cells enumerated over range(grid_size + 1)
InitialPositionsOffByOne ==
  {p \in [1..num_agents -> {<<x, y>> : x \in 0..GridSize, y \in 0..GridSize}] :
     \A i, j \in 1..num_agents : i # j => p[i] # p[j]}

\* shuffle(cells) then zip(agent_names, cells): any assignment of pairwise
\* distinct cells
InitialPositions ==
  {p \in [1..num_agents -> Cells] : \A i, j \in 1..num_agents : i # j => p[i] # p[j]}

\* controllers[name] is None for the player, the last of agent_names
BuildControllers(enabled) ==
  [i \in 1..num_agents |->
     IF enabled /\ i = num_agents THEN None ELSE Some("AssistantAgent")]

AgentState(name, controller, x, y) ==
  [name |-> name, controller |-> controller, x |-> x, y |-> y, inbox |-> None]

Snapshot(e) ==
  [turn |-> e.turn,
   agents |-> [k \in 1..Len(e.agents) |->
                 [name |-> e.agents[k].name, x |-> e.agents[k].x, y |-> e.agents[k].y]]]

Init ==
  /\ num_agents = NumAgents
  /\ player_enabled \in BOOLEAN
  /\ player_agent_name = None
  /\ turn = 0
  /\ agents = << >>
  /\ conversation_log = << >>
  /\ debug_history = << >>
  /\ pending_player = None
  /\ active_turn_messages = None
  /\ active_turn_debug = None
  /\ calls = [c \in OneCoroutine |-> IdleCall]
  /\ last = Result("", "", "")
  /\ event = "init"
  /\ arg = None
  /\ processed = << >>
  /\ completed = 0
  /\ oracle_failed = FALSE
  /\ decoding = NotDecoding
  /\ enforcing = NotEnforcing

\* reset() that leaves the pending request and the accumulated lists of the
\* turn in progress as they are
ResetKeepingTurnState ==
  /\ NoCallInFlight
  /\ ~Finished
  /\ \E positions \in InitialPositions :
       LET controllers == BuildControllers(player_enabled)
       IN  /\ turn' = 0
           /\ conversation_log' = << >>
           /\ debug_history' = << >>
           /\ UNCHANGED <<pending_player, active_turn_messages, active_turn_debug>>
           /\ player_agent_name' = IF player_enabled THEN Some(AgentNames[num_agents]) ELSE None
           /\ agents' = [i \in 1..num_agents |->
                           AgentState(AgentNames[i], controllers[i], positions[i][1], positions[i][2])]
  /\ last' = Result("reset", "ok", "")
  /\ event' = "reset"
  /\ arg' = None
  /\ processed' = << >>
  /\ completed' = 0
  /\ oracle_failed' = FALSE
  /\ UNCHANGED <<decoding, enforcing, num_agents, player_enabled, calls>>

Reset ==
  /\ NoCallInFlight
  /\ ~Finished
  /\ \E positions \in InitialPositions :
       LET controllers == BuildControllers(player_enabled)
       IN  /\ turn' = 0
           /\ conversation_log' = << >>
           /\ debug_history' = << >>
           /\ pending_player' = None
           /\ active_turn_messages' = None
           /\ active_turn_debug' = None
           /\ player_agent_name' = IF player_enabled THEN Some(AgentNames[num_agents]) ELSE None
           /\ agents' = [i \in 1..num_agents |->
                           AgentState(AgentNames[i], controllers[i], positions[i][1], positions[i][2])]
  /\ last' = Result("reset", "ok", "")
  /\ event' = "reset"
  /\ arg' = None
  /\ processed' = << >>
  /\ completed' = 0
  /\ oracle_failed' = FALSE
  /\ UNCHANGED <<decoding, enforcing, num_agents, player_enabled, calls>>

(* --------------------------- turn machinery ---------------------------- *)
\* an entry of _active_turn_debug; of the prompt it keeps the "message" of
\* the observation (absent: None), the raw response is left out
DebugEntry(name, message, legal_actions) ==
  [agent |-> name, message |-> message, legal_actions |-> legal_actions,
   action |-> None, notes |-> NULL]

\* a reference to a debug_entry
Ref(gen, at) == [gen |-> gen, at |-> at]

\* The dict behind a reference is an entry of the list of the turn in
\* progress, as long as that is the list the entry was appended to;
InActive(e, entry) ==
  /\ e.active_turn_debug # None
  /\ e.turn = entry.gen
  /\ entry.at \in 1..Len(e.active_turn_debug[1])

\* or it is an entry of the record that list was sealed into (the record
\* holds a copy of the list, not of its dicts); or it is in no list any more.
SealedIn(e, entry) ==
  {r \in 1..Len(e.debug_history) :
     /\ e.debug_history[r].turn = entry.gen
     /\ entry.at \in 1..Len(e.debug_history[r].debug)}

\* debug_entry["notes"] = n
SetNotes(e, entry, n) ==
  IF InActive(e, entry) THEN [e EXCEPT !.active_turn_debug[1][entry.at].notes = n]
  ELSE IF SealedIn(e, entry) # {}
  THEN [e EXCEPT !.debug_history[CHOOSE r \in SealedIn(e, entry) : TRUE].debug[entry.at].notes = n]
  ELSE e

\* the assignment debug_entry["action"] = action left out
SetActionLeftOut(e, entry, action) == e

\* debug_entry["action"] = action
SetAction(e, entry, action) ==
  IF InActive(e, entry) THEN [e EXCEPT !.active_turn_debug[1][entry.at].action = Some(action)]
  ELSE IF SealedIn(e, entry) # {}
  THEN [e EXCEPT !.debug_history[CHOOSE r \in SealedIn(e, entry) : TRUE].debug[entry.at].action
                   = Some(action)]
  ELSE e

\* the inbox as a one-place queue: a message still waiting there is kept
ApplyActionKeepingInbox(e, idx, action, entry) ==
  LET agent == e.agents[idx]
  IN  IF e.active_turn_messages = None THEN e
      ELSE IF action.action = "move"
      THEN IF action.direction \notin DirectionSet
           THEN SetNotes(e, entry, "Move direction missing; waited instead.")
           ELSE LET new_x == agent.x + MoveDelta(action.direction)[1]
                    new_y == agent.y + MoveDelta(action.direction)[2]
                    blocked == \/ new_x < 0
                               \/ new_x >= GridSize
                               \/ new_y < 0
                               \/ new_y >= GridSize
                               \/ \E k \in 1..Len(e.agents) :
                                    /\ e.agents[k].name # agent.name
                                    /\ e.agents[k].x = new_x
                                    /\ e.agents[k].y = new_y
                IN  IF blocked THEN SetNotes(e, entry, "Move blocked; stayed in place.")
                    ELSE SetNotes([e EXCEPT !.agents[idx].x = new_x, !.agents[idx].y = new_y],
                                  entry, "Moved.")
      ELSE IF action.action = "talk"
      THEN LET found == {k \in 1..Len(e.agents) : e.agents[k].name = action.target}
           IN  IF found # {} /\ IsStr(action.message)
                  /\ IsAdjacent(agent, e.agents[CHOOSE k \in found : \A j \in found : k <= j])
               THEN LET t == CHOOSE k \in found : \A j \in found : k <= j
                        payload == [from |-> agent.name, to |-> action.target,
                                    message |-> action.message, turn |-> e.turn]
                    IN  SetNotes([e EXCEPT !.agents[t].inbox =
                                             IF @ # None THEN @ ELSE
                                             Some([from |-> agent.name, message |-> action.message]),
                                           !.active_turn_messages[1] = Append(@, payload),
                                           !.conversation_log = Append(@, payload)],
                                 entry, "Spoke.")
               ELSE SetNotes(e, entry, "Talk target invalid or not adjacent.")
      ELSE SetNotes(e, entry, "Waited.")


\* a talk is heard by every neighbour of the speaker
ApplyActionBroadcasting(e, idx, action, entry) ==
  LET agent == e.agents[idx]
  IN  IF e.active_turn_messages = None THEN e
      ELSE IF action.action = "move"
      THEN IF action.direction \notin DirectionSet
           THEN SetNotes(e, entry, "Move direction missing; waited instead.")
           ELSE LET new_x == agent.x + MoveDelta(action.direction)[1]
                    new_y == agent.y + MoveDelta(action.direction)[2]
                    blocked == \/ new_x < 0
                               \/ new_x >= GridSize
                               \/ new_y < 0
                               \/ new_y >= GridSize
                               \/ \E k \in 1..Len(e.agents) :
                                    /\ e.agents[k].name # agent.name
                                    /\ e.agents[k].x = new_x
                                    /\ e.agents[k].y = new_y
                IN  IF blocked THEN SetNotes(e, entry, "Move blocked; stayed in place.")
                    ELSE SetNotes([e EXCEPT !.agents[idx].x = new_x, !.agents[idx].y = new_y],
                                  entry, "Moved.")
      ELSE IF action.action = "talk"
      THEN LET found == {k \in 1..Len(e.agents) : e.agents[k].name = action.target}
           IN  IF found # {} /\ IsStr(action.message)
                  /\ IsAdjacent(agent, e.agents[CHOOSE k \in found : \A j \in found : k <= j])
               THEN LET payload == [from |-> agent.name, to |-> action.target,
                                    message |-> action.message, turn |-> e.turn]
                        heard == [k \in 1..Len(e.agents) |->
                                    IF k # idx /\ IsAdjacent(agent, e.agents[k])
                                    THEN [e.agents[k] EXCEPT !.inbox =
                                            Some([from |-> agent.name, message |-> action.message])]
                                    ELSE e.agents[k]]
                    IN  SetNotes([e EXCEPT !.agents = heard,
                                           !.active_turn_messages[1] = Append(@, payload),
                                           !.conversation_log = Append(@, payload)],
                                 entry, "Spoke.")
               ELSE SetNotes(e, entry, "Talk target invalid or not adjacent.")
      ELSE SetNotes(e, entry, "Waited.")

ApplyAction(e, idx, action, entry) ==
  LET agent == e.agents[idx]
  IN  IF e.active_turn_messages = None THEN e
      ELSE IF action.action = "move"
      THEN IF action.direction \notin DirectionSet
           THEN SetNotes(e, entry, "Move direction missing; waited instead.")
           ELSE LET new_x == agent.x + MoveDelta(action.direction)[1]
                    new_y == agent.y + MoveDelta(action.direction)[2]
                    blocked == \/ new_x < 0
                               \/ new_x >= GridSize
                               \/ new_y < 0
                               \/ new_y >= GridSize
                               \/ \E k \in 1..Len(e.agents) :
                                    /\ e.agents[k].name # agent.name
                                    /\ e.agents[k].x = new_x
                                    /\ e.agents[k].y = new_y
                IN  IF blocked THEN SetNotes(e, entry, "Move blocked; stayed in place.")
                    ELSE SetNotes([e EXCEPT !.agents[idx].x = new_x, !.agents[idx].y = new_y],
                                  entry, "Moved.")
      ELSE IF action.action = "talk"
      THEN LET found == {k \in 1..Len(e.agents) : e.agents[k].name = action.target}
           IN  IF found # {} /\ IsStr(action.message)
                  /\ IsAdjacent(agent, e.agents[CHOOSE k \in found : \A j \in found : k <= j])
               THEN LET t == CHOOSE k \in found : \A j \in found : k <= j
                        payload == [from |-> agent.name, to |-> action.target,
                                    message |-> action.message, turn |-> e.turn]
                    IN  SetNotes([e EXCEPT !.agents[t].inbox =
                                             Some([from |-> agent.name, message |-> action.message]),
                                           !.active_turn_messages[1] = Append(@, payload),
                                           !.conversation_log = Append(@, payload)],
                                 entry, "Spoke.")
               ELSE SetNotes(e, entry, "Talk target invalid or not adjacent.")
      ELSE SetNotes(e, entry, "Waited.")

\* history keeps the latest record only
FinaliseTurnReplacingHistory(e) ==
  LET turn_result ==
        [turn |-> e.turn,
         snapshot |-> Snapshot(e),
         turnMessages |-> IF e.active_turn_messages = None THEN << >> ELSE e.active_turn_messages[1],
         debug |-> IF e.active_turn_debug = None THEN << >> ELSE e.active_turn_debug[1]]
  IN  [e EXCEPT !.debug_history = <<turn_result>>,
                !.active_turn_messages = None,
                !.active_turn_debug = None]


\* the conversation log is handed over with the record and started afresh
FinaliseTurnClearingLog(e) ==
  LET turn_result ==
        [turn |-> e.turn,
         snapshot |-> Snapshot(e),
         turnMessages |-> IF e.active_turn_messages = None THEN << >> ELSE e.active_turn_messages[1],
         debug |-> IF e.active_turn_debug = None THEN << >> ELSE e.active_turn_debug[1]]
  IN  [e EXCEPT !.debug_history = Append(@, turn_result),
                !.conversation_log = << >>,
                !.active_turn_messages = None,
                !.active_turn_debug = None]


\* the record is numbered by its place in history, not by the turn counter
FinaliseTurnNumberedByPlace(e) ==
  LET turn_result ==
        [turn |-> Len(e.debug_history) + 1,
         snapshot |-> Snapshot(e),
         turnMessages |-> IF e.active_turn_messages = None THEN << >> ELSE e.active_turn_messages[1],
         debug |-> IF e.active_turn_debug = None THEN << >> ELSE e.active_turn_debug[1]]
  IN  [e EXCEPT !.debug_history = Append(@, turn_result),
                !.active_turn_messages = None,
                !.active_turn_debug = None]


\* the accumulated lists are left in place when the turn is sealed
FinaliseTurnKeepingLists(e) ==
  LET turn_result ==
        [turn |-> e.turn,
         snapshot |-> Snapshot(e),
         turnMessages |-> IF e.active_turn_messages = None THEN << >> ELSE e.active_turn_messages[1],
         debug |-> IF e.active_turn_debug = None THEN << >> ELSE e.active_turn_debug[1]]
  IN  [e EXCEPT !.debug_history = Append(@, turn_result)]

FinaliseTurn(e) ==
  LET turn_result ==
        [turn |-> e.turn,
         snapshot |-> Snapshot(e),
         turnMessages |-> IF e.active_turn_messages = None THEN << >> ELSE e.active_turn_messages[1],
         debug |-> IF e.active_turn_debug = None THEN << >> ELSE e.active_turn_debug[1]]
  IN  [e EXCEPT !.debug_history = Append(@, turn_result),
                !.active_turn_messages = None,
                !.active_turn_debug = None]

\* _legal_actions plus the target_title the loop adds to every talk entry
SlotLegalActions(e, idx, player_name) ==
  LET legal == LegalActions(e.agents[idx], e.agents, GridSize)
  IN  [k \in 1..Len(legal) |->
         IF legal[k].action = "talk"
         THEN [legal[k] EXCEPT !.target_title = ProfileTitle(legal[k].target, player_name)]
         ELSE legal[k]]

\* the loop stops one agent short: range(start_index, len(self.agents) - 1)
ContinueTurnFromOneShort(e, start, player_name) ==
  IF start > Len(e.agents) - 1
  THEN [e |-> FinaliseTurn(e), outcome |-> "sealed", idx |-> 0, entry |-> 0, legal_actions |-> << >>]
  ELSE LET agent == e.agents[start]
           legal_actions == SlotLegalActions(e, start, player_name)
           e1 == [e EXCEPT !.agents[start].inbox = None,
                           !.active_turn_debug[1] =
                             Append(@, DebugEntry(agent.name, agent.inbox, legal_actions))]
           entry == Len(e1.active_turn_debug[1])
       IN  IF agent.controller = None
           THEN [e |-> [e1 EXCEPT !.pending_player =
                                     Some([agent_index |-> start, legal_actions |-> legal_actions])],
                 outcome |-> "pending", idx |-> start, entry |-> entry,
                 legal_actions |-> legal_actions]
           ELSE [e |-> e1, outcome |-> "await", idx |-> start, entry |-> entry,
                 legal_actions |-> legal_actions]

\* the inbox is read into the observation but not emptied
ContinueTurnFromKeepingInbox(e, start, player_name) ==
  IF start > Len(e.agents)
  THEN [e |-> FinaliseTurn(e), outcome |-> "sealed", idx |-> 0, entry |-> 0, legal_actions |-> << >>]
  ELSE LET agent == e.agents[start]
           legal_actions == SlotLegalActions(e, start, player_name)
           e1 == [e EXCEPT !.active_turn_debug[1] =
                             Append(@, DebugEntry(agent.name, agent.inbox, legal_actions))]
           entry == Len(e1.active_turn_debug[1])
       IN  IF agent.controller = None
           THEN [e |-> [e1 EXCEPT !.pending_player =
                                     Some([agent_index |-> start, legal_actions |-> legal_actions])],
                 outcome |-> "pending", idx |-> start, entry |-> entry,
                 legal_actions |-> legal_actions]
           ELSE [e |-> e1, outcome |-> "await", idx |-> start, entry |-> entry,
                 legal_actions |-> legal_actions]

\* _continue_turn_from(start_index) up to the point where it leaves the
\* atomic section: the await of the oracle, the return of a pending player
\* request, or the return of the sealed turn.  Every agent either has a
\* controller (await) or has none (return), so at most one slot is begun.
ContinueTurnFrom(e, start, player_name) ==
  IF start > Len(e.agents)
  THEN [e |-> FinaliseTurn(e), outcome |-> "sealed", idx |-> 0, entry |-> 0, legal_actions |-> << >>]
  ELSE IF e.active_turn_debug = None
  THEN \* the inbox is emptied (line 345), then append fails on None (line 354)
       [e |-> [e EXCEPT !.agents[start].inbox = None], outcome |-> "raised", idx |-> start,
        entry |-> 0, legal_actions |-> << >>]
  ELSE LET agent == e.agents[start]
           legal_actions == SlotLegalActions(e, start, player_name)
           e1 == [e EXCEPT !.agents[start].inbox = None,
                           !.active_turn_debug[1] =
                             Append(@, DebugEntry(agent.name, agent.inbox, legal_actions))]
           entry == Len(e1.active_turn_debug[1])
       IN  IF agent.controller = None
           THEN [e |-> [e1 EXCEPT !.pending_player =
                                     Some([agent_index |-> start, legal_actions |-> legal_actions])],
                 outcome |-> "pending", idx |-> start, entry |-> entry,
                 legal_actions |-> legal_actions]
           ELSE [e |-> e1, outcome |-> "await", idx |-> start, entry |-> entry,
                 legal_actions |-> legal_actions]

\* the coroutine c after _continue_turn_from has run to `r`
Proceed(c, op, r) ==
  /\ Install(r.e)
  /\ IF r.outcome = "await"
     THEN /\ calls' = [calls EXCEPT ![c] = [pc |-> "await", op |-> op, idx |-> r.idx,
                                            gen |-> r.e.turn, entry |-> r.entry,
                                            legal_actions |-> r.legal_actions,
                                            reply |-> None]]
          /\ last' = Result(op, "running", "")
     ELSE IF r.outcome = "raised"
     THEN /\ calls' = [calls EXCEPT ![c] = IdleCall]
          /\ last' = Result(op, "error", "AttributeError")
     ELSE /\ calls' = [calls EXCEPT ![c] = IdleCall]
          /\ last' = Result(op, r.outcome, "")

\* the coroutine c raises: the exception reaches the caller
Raise(c, op, error) ==
  /\ calls' = [calls EXCEPT ![c] = IdleCall]
  /\ last' = Result(op, "error", error)

\* the slot of agent idx is completed: its action has been applied
Completes(idx) ==
  /\ processed' = Append(processed, idx)
  /\ completed' = IF {processed'[k] : k \in 1..Len(processed')} = 1..Len(agents)
                  THEN completed + 1 ELSE completed

(* ------------------------------- inputs -------------------------------- *)
Messages == {"hi"}
Targets == NameSet \cup {"nobody"}

Object(members) == <<LBrace>> \o members \o <<RBrace>>

\* texts an oracle may return
OracleReplies ==
  {<<Prose>>, Object(<<Prose>>),
   Object(<< <<"action", "wait">> >>),
   Object(<< <<"action", "dance">> >>),
   Object(<< <<"action", LIST>> >>),
   Object(<< <<"action", "move">>, <<"direction", "north">> >>),
   Object(<< <<"action", "move">>, <<"direction", LIST>> >>),
   Object(<< <<"action", "talk">>, <<"target", "agent1">> >>)}
  \cup {Object(<< <<"action", "move">>, <<"direction", d>> >>) : d \in DirectionSet}
  \cup {<<Prose>> \o Object(<< <<"action", "talk">>, <<"target", t>>, <<"message", m>> >>) :
          t \in Targets, m \in Messages}

\* action objects a caller may pass to apply_player_action
PlayerActions ==
  {NotADict, Act("wait", NULL, NULL, NULL, NULL), Act(NULL, NULL, NULL, NULL, NULL),
   Act("dance", NULL, NULL, NULL, NULL), Act("move", NULL, NULL, NULL, NULL),
   Act("move", "north", NULL, NULL, NULL)}
  \cup {Act("move", d, NULL, NULL, NULL) : d \in DirectionSet}
  \cup {Act("talk", NULL, t, m, NULL) :
          t \in Targets \cup {NULL}, m \in Messages \cup {NULL, NUM, Blank}}

(* ------------------------------ operations ----------------------------- *)
\* step() without the test of pending_player
StepWithoutPendingTest(c) ==
  /\ NoCallInFlight
  /\ ~Finished
  /\ event' = "step"
  /\ arg' = None
  /\ UNCHANGED <<decoding, enforcing, num_agents, player_enabled, player_agent_name, oracle_failed>>
  /\ IF agents = << >>
     THEN /\ Raise(c, "step", "RuntimeError: not initialised")
          /\ UNCHANGED <<turn, agents, conversation_log, debug_history, pending_player,
                         active_turn_messages, active_turn_debug, processed, completed>>
     ELSE /\ Proceed(c, "step",
                     ContinueTurnFrom([Engine EXCEPT !.turn = turn + 1,
                                                     !.active_turn_messages = Some(<< >>),
                                                     !.active_turn_debug = Some(<< >>)],
                                      1, player_agent_name))
          /\ processed' = << >>
          /\ completed' = completed

\* step() without the test of self.agents
StepCallWithoutInitTest(c) ==
  /\ event' = "step"
  /\ arg' = None
  /\ UNCHANGED <<decoding, enforcing, num_agents, player_enabled, player_agent_name, oracle_failed>>
  /\ IF pending_player # None
     THEN /\ Raise(c, "step", "RuntimeError: awaiting player")
          /\ UNCHANGED <<turn, agents, conversation_log, debug_history, pending_player,
                         active_turn_messages, active_turn_debug, processed, completed>>
     ELSE /\ Proceed(c, "step",
                     ContinueTurnFrom([Engine EXCEPT !.turn = turn + 1,
                                                     !.active_turn_messages = Some(<< >>),
                                                     !.active_turn_debug = Some(<< >>)],
                                      1, player_agent_name))
          /\ processed' = << >>
          /\ completed' = completed

\* step() up to its first await or its return
StepCall(c) ==
  /\ event' = "step"
  /\ arg' = None
  /\ UNCHANGED <<decoding, enforcing, num_agents, player_enabled, player_agent_name, oracle_failed>>
  /\ IF agents = << >>
     THEN /\ Raise(c, "step", "RuntimeError: not initialised")
          /\ UNCHANGED <<turn, agents, conversation_log, debug_history, pending_player,
                         active_turn_messages, active_turn_debug, processed, completed>>
     ELSE IF pending_player # None
     THEN /\ Raise(c, "step", "RuntimeError: awaiting player")
          /\ UNCHANGED <<turn, agents, conversation_log, debug_history, pending_player,
                         active_turn_messages, active_turn_debug, processed, completed>>
     ELSE /\ Proceed(c, "step",
                     ContinueTurnFrom([Engine EXCEPT !.turn = turn + 1,
                                                     !.active_turn_messages = Some(<< >>),
                                                     !.active_turn_debug = Some(<< >>)],
                                      1, player_agent_name))
          /\ processed' = << >>
          /\ completed' = completed

\* step() called when no other call is under way
Step(c) ==
  /\ NoCallInFlight
  /\ ~Finished
  /\ StepCall(c)

\* apply_player_action that seals the turn as it stands when nothing is
\* pending, instead of raising
ApplyPlayerActionSealingWhenIdle(c, action) ==
  /\ NoCallInFlight
  /\ ~Finished
  /\ event' = "apply"
  /\ arg' = IF pending_player = None THEN None ELSE Some(action)
  /\ UNCHANGED <<decoding, enforcing, num_agents, player_enabled, player_agent_name, oracle_failed>>
  /\ IF pending_player = None
     THEN /\ Install(FinaliseTurn(Engine))
          /\ calls' = [calls EXCEPT ![c] = IdleCall]
          /\ last' = Result("apply", "sealed", "")
          /\ UNCHANGED <<processed, completed>>
     ELSE LET info == pending_player[1]
              agent_index == info.agent_index
              agent == agents[agent_index]
              validated == ValidatePlayerAction(action, info.legal_actions, agent.name)
          IN  IF validated.raised # ""
              THEN /\ Raise(c, "apply", validated.raised)
                   /\ pending_player' = None
                   /\ UNCHANGED <<turn, agents, conversation_log, debug_history,
                                  active_turn_messages, active_turn_debug, processed, completed>>
              ELSE /\ Proceed(c, "apply",
                        ContinueTurnFrom(
                          ApplyAction(SetAction([Engine EXCEPT !.pending_player = None],
                                                Ref(turn, agent_index), validated.value),
                                      agent_index, validated.value, Ref(turn, agent_index)),
                          agent_index + 1, player_agent_name))
                   /\ Completes(agent_index)

\* apply_player_action(action) up to its first await or its return
ApplyPlayerActionCall(c, action) ==
  /\ event' = "apply"
  /\ arg' = IF pending_player = None \/ active_turn_messages = None \/ active_turn_debug = None
             THEN None ELSE Some(action)
  /\ UNCHANGED <<decoding, enforcing, num_agents, player_enabled, player_agent_name, oracle_failed>>
  /\ IF pending_player = None
     THEN /\ Raise(c, "apply", "RuntimeError: no player action pending")
          /\ UNCHANGED <<turn, agents, conversation_log, debug_history, pending_player,
                         active_turn_messages, active_turn_debug, processed, completed>>
     ELSE IF active_turn_messages = None \/ active_turn_debug = None
     THEN /\ Raise(c, "apply", "RuntimeError: internal turn state missing")
          /\ UNCHANGED <<turn, agents, conversation_log, debug_history, pending_player,
                         active_turn_messages, active_turn_debug, processed, completed>>
     ELSE LET info == pending_player[1]
              agent_index == info.agent_index
              agent == agents[agent_index]
              validated == ValidatePlayerAction(action, info.legal_actions, agent.name)
          IN  IF validated.raised # ""
              THEN \* pending_player was set to None before the validation
                   /\ Raise(c, "apply", validated.raised)
                   /\ pending_player' = None
                   /\ UNCHANGED <<turn, agents, conversation_log, debug_history,
                                  active_turn_messages, active_turn_debug, processed, completed>>
              ELSE IF agent_index > Len(active_turn_debug[1])
              THEN \* self._active_turn_debug[agent_index] of a list that is too short
                   /\ Raise(c, "apply", "IndexError")
                   /\ pending_player' = None
                   /\ UNCHANGED <<turn, agents, conversation_log, debug_history,
                                  active_turn_messages, active_turn_debug, processed, completed>>
              ELSE /\ Proceed(c, "apply",
                        ContinueTurnFrom(
                          ApplyAction(SetAction([Engine EXCEPT !.pending_player = None],
                                                Ref(turn, agent_index), validated.value),
                                      agent_index, validated.value, Ref(turn, agent_index)),
                          agent_index + 1, player_agent_name))
                   /\ Completes(agent_index)

\* apply_player_action(action) called when no other call is under way
ApplyPlayerAction(c, action) ==
  /\ NoCallInFlight
  /\ ~Finished
  /\ ApplyPlayerActionCall(c, action)


\* controller.run(...) of the awaited query finishes: with a text, or not
OracleReturn(c) ==
  /\ calls[c].pc = "await"
  /\ \E reply \in [ok : {TRUE}, text : OracleReplies] \cup {[ok |-> FALSE, text |-> << >>]} :
       calls' = [calls EXCEPT ![c].pc = "ready", ![c].reply = Some(reply)]
  /\ event' = "oracle"
  /\ arg' = None
  /\ UNCHANGED <<decoding, enforcing, num_agents, player_enabled, engine, last, ghosts>>

\* the loop index is not advanced after the slot: the turn continues with
\* the agent it has just processed
ResumeSameSlot(c) ==
  /\ calls[c].pc = "ready"
  /\ event' = "resume"
  /\ arg' = None
  /\ UNCHANGED <<decoding, enforcing, num_agents, player_enabled, player_agent_name>>
  /\ LET call == calls[c]
         reply == call.reply[1]
         agent == agents[call.idx]
         parsed == ParseAction(reply.text)
         enforced == EnforceLegality(parsed.value, call.legal_actions, agent.name)
     IN  IF ~reply.ok
         THEN /\ Raise(c, call.op, "RuntimeError: no textual action")
              /\ oracle_failed' = TRUE
              /\ UNCHANGED <<turn, agents, conversation_log, debug_history, pending_player,
                             active_turn_messages, active_turn_debug, processed, completed>>
         ELSE IF parsed.raised # ""
         THEN /\ Raise(c, call.op, parsed.raised)
              /\ UNCHANGED <<turn, agents, conversation_log, debug_history, pending_player,
                             active_turn_messages, active_turn_debug, processed, completed,
                             oracle_failed>>
         ELSE IF enforced.raised # ""
         THEN /\ Raise(c, call.op, enforced.raised)
              /\ UNCHANGED <<turn, agents, conversation_log, debug_history, pending_player,
                             active_turn_messages, active_turn_debug, processed, completed,
                             oracle_failed>>
         ELSE /\ Proceed(c, call.op,
                   ContinueTurnFrom(
                     ApplyAction(SetAction(Engine, Ref(call.gen, call.entry), enforced.value),
                                 call.idx, enforced.value, Ref(call.gen, call.entry)),
                     call.idx, player_agent_name))
              /\ Completes(call.idx)
              /\ oracle_failed' = oracle_failed

\* the next agent's slot is begun before the action of this one is applied
ResumeApplyingLate(c) ==
  /\ calls[c].pc = "ready"
  /\ event' = "resume"
  /\ arg' = None
  /\ UNCHANGED <<decoding, enforcing, num_agents, player_enabled, player_agent_name>>
  /\ LET call == calls[c]
         reply == call.reply[1]
         agent == agents[call.idx]
         parsed == ParseAction(reply.text)
         enforced == EnforceLegality(parsed.value, call.legal_actions, agent.name)
         begun == ContinueTurnFrom(SetAction(Engine, Ref(call.gen, call.entry), enforced.value),
                                   call.idx + 1, player_agent_name)
     IN  IF ~reply.ok
         THEN /\ Raise(c, call.op, "RuntimeError: no textual action")
              /\ oracle_failed' = TRUE
              /\ UNCHANGED <<turn, agents, conversation_log, debug_history, pending_player,
                             active_turn_messages, active_turn_debug, processed, completed>>
         ELSE IF parsed.raised # ""
         THEN /\ Raise(c, call.op, parsed.raised)
              /\ UNCHANGED <<turn, agents, conversation_log, debug_history, pending_player,
                             active_turn_messages, active_turn_debug, processed, completed,
                             oracle_failed>>
         ELSE IF enforced.raised # ""
         THEN /\ Raise(c, call.op, enforced.raised)
              /\ UNCHANGED <<turn, agents, conversation_log, debug_history, pending_player,
                             active_turn_messages, active_turn_debug, processed, completed,
                             oracle_failed>>
         ELSE /\ Proceed(c, call.op,
                   [begun EXCEPT !.e = ApplyAction(begun.e, call.idx, enforced.value,
                                                   Ref(call.gen, call.entry))])
              /\ Completes(call.idx)
              /\ oracle_failed' = oracle_failed

\* a failed query is treated like an unusable reply: the agent waits and the
\* turn goes on
ResumeFailureAsWait(c) ==
  /\ calls[c].pc = "ready"
  /\ event' = "resume"
  /\ arg' = None
  /\ UNCHANGED <<decoding, enforcing, num_agents, player_enabled, player_agent_name>>
  /\ LET call == calls[c]
         reply == call.reply[1]
         agent == agents[call.idx]
         parsed == ParseAction(reply.text)
         enforced == EnforceLegality(parsed.value, call.legal_actions, agent.name)
     IN  IF ~reply.ok
         THEN /\ Proceed(c, call.op,
                   ContinueTurnFrom(
                     ApplyAction(SetAction(Engine, Ref(call.gen, call.entry), WaitAction),
                                 call.idx, WaitAction, Ref(call.gen, call.entry)),
                     call.idx + 1, player_agent_name))
              /\ Completes(call.idx)
              /\ oracle_failed' = TRUE
         ELSE IF parsed.raised # ""
         THEN /\ Raise(c, call.op, parsed.raised)
              /\ UNCHANGED <<turn, agents, conversation_log, debug_history, pending_player,
                             active_turn_messages, active_turn_debug, processed, completed,
                             oracle_failed>>
         ELSE IF enforced.raised # ""
         THEN /\ Raise(c, call.op, enforced.raised)
              /\ UNCHANGED <<turn, agents, conversation_log, debug_history, pending_player,
                             active_turn_messages, active_turn_debug, processed, completed,
                             oracle_failed>>
         ELSE /\ Proceed(c, call.op,
                   ContinueTurnFrom(
                     ApplyAction(SetAction(Engine, Ref(call.gen, call.entry), enforced.value),
                                 call.idx, enforced.value, Ref(call.gen, call.entry)),
                     call.idx + 1, player_agent_name))
              /\ Completes(call.idx)
              /\ oracle_failed' = oracle_failed

\* a move of the legal list computed when the slot began is carried out as
\* it is, without another look at the board
ResumeTrustingLegalList(c) ==
  /\ calls[c].pc = "ready"
  /\ event' = "resume"
  /\ arg' = None
  /\ UNCHANGED <<decoding, enforcing, num_agents, player_enabled, player_agent_name>>
  /\ LET call == calls[c]
         reply == call.reply[1]
         agent == agents[call.idx]
         parsed == ParseAction(reply.text)
         enforced == EnforceLegality(parsed.value, call.legal_actions, agent.name)
         trusted == parsed.value.action = "move"
                      /\ parsed.value.direction \in LegalDirections(call.legal_actions)
         moved == [Engine EXCEPT
                     !.agents[call.idx].x = @ + MoveDelta(parsed.value.direction)[1],
                     !.agents[call.idx].y = @ + MoveDelta(parsed.value.direction)[2]]
     IN  IF ~reply.ok
         THEN /\ Raise(c, call.op, "RuntimeError: no textual action")
              /\ oracle_failed' = TRUE
              /\ UNCHANGED <<turn, agents, conversation_log, debug_history, pending_player,
                             active_turn_messages, active_turn_debug, processed, completed>>
         ELSE IF parsed.raised # ""
         THEN /\ Raise(c, call.op, parsed.raised)
              /\ UNCHANGED <<turn, agents, conversation_log, debug_history, pending_player,
                             active_turn_messages, active_turn_debug, processed, completed,
                             oracle_failed>>
         ELSE IF trusted
         THEN /\ Proceed(c, call.op,
                   ContinueTurnFrom(
                     SetNotes(SetAction(moved, Ref(call.gen, call.entry), parsed.value),
                              Ref(call.gen, call.entry), "Moved."),
                     call.idx + 1, player_agent_name))
              /\ Completes(call.idx)
              /\ oracle_failed' = oracle_failed
         ELSE IF enforced.raised # ""
         THEN /\ Raise(c, call.op, enforced.raised)
              /\ UNCHANGED <<turn, agents, conversation_log, debug_history, pending_player,
                             active_turn_messages, active_turn_debug, processed, completed,
                             oracle_failed>>
         ELSE /\ Proceed(c, call.op,
                   ContinueTurnFrom(
                     ApplyAction(SetAction(Engine, Ref(call.gen, call.entry), enforced.value),
                                 call.idx, enforced.value, Ref(call.gen, call.entry)),
                     call.idx + 1, player_agent_name))
              /\ Completes(call.idx)
              /\ oracle_failed' = oracle_failed

\* the coroutine continues after the await, up to its next await or return
Resume(c) ==
  /\ calls[c].pc = "ready"
  /\ event' = "resume"
  /\ arg' = None
  /\ UNCHANGED <<decoding, enforcing, num_agents, player_enabled, player_agent_name>>
  /\ LET call == calls[c]
         reply == call.reply[1]
         agent == agents[call.idx]
         parsed == ParseAction(reply.text)
         enforced == EnforceLegality(parsed.value, call.legal_actions, agent.name)
     IN  IF ~reply.ok
         THEN /\ Raise(c, call.op, "RuntimeError: no textual action")
              /\ oracle_failed' = TRUE
              /\ UNCHANGED <<turn, agents, conversation_log, debug_history, pending_player,
                             active_turn_messages, active_turn_debug, processed, completed>>
         ELSE IF parsed.raised # ""
         THEN /\ Raise(c, call.op, parsed.raised)
              /\ UNCHANGED <<turn, agents, conversation_log, debug_history, pending_player,
                             active_turn_messages, active_turn_debug, processed, completed,
                             oracle_failed>>
         ELSE IF enforced.raised # ""
         THEN /\ Raise(c, call.op, enforced.raised)
              /\ UNCHANGED <<turn, agents, conversation_log, debug_history, pending_player,
                             active_turn_messages, active_turn_debug, processed, completed,
                             oracle_failed>>
         ELSE /\ Proceed(c, call.op,
                   ContinueTurnFrom(
                     ApplyAction(SetAction(Engine, Ref(call.gen, call.entry), enforced.value),
                                 call.idx, enforced.value, Ref(call.gen, call.entry)),
                     call.idx + 1, player_agent_name))
              /\ Completes(call.idx)
              /\ oracle_failed' = oracle_failed

Next ==
  \/ Reset
  \/ \E c \in CallIds : Step(c)
  \/ \E c \in CallIds : \E action \in PlayerActions : ApplyPlayerAction(c, action)
  \/ \E c \in CallIds : OracleReturn(c)
  \/ \E c \in CallIds : Resume(c)

Spec == Init /\ [][Next]_vars

(* ---------------------- the three-agent instance ----------------------- *)
\* num_agents of an instance of three autonomous agents
ThreeAgents == 3

InitThree ==
  /\ num_agents = ThreeAgents
  /\ player_enabled = FALSE
  /\ player_agent_name = None
  /\ turn = 0
  /\ agents = << >>
  /\ conversation_log = << >>
  /\ debug_history = << >>
  /\ pending_player = None
  /\ active_turn_messages = None
  /\ active_turn_debug = None
  /\ calls = [c \in OneCoroutine |-> IdleCall]
  /\ last = Result("", "", "")
  /\ event = "init"
  /\ arg = None
  /\ processed = << >>
  /\ completed = 0
  /\ oracle_failed = FALSE
  /\ decoding = NotDecoding
  /\ enforcing = NotEnforcing

\* the instance is reset once, after its construction
FirstReset == agents = << >> /\ Reset

\* step() while the caller has turns left to start
StepThree(c) == turn < ThreeTurns /\ Step(c)

\* texts of an oracle that talks or waits
TalkReplies ==
  {Object(<< <<"action", "wait">> >>)}
  \cup {Object(<< <<"action", "talk">>, <<"target", t>>, <<"message", m>> >>) :
          t \in Targets, m \in Messages}

\* controller.run(...) of the awaited query finishes with such a text
OracleReturnTalk(c) ==
  /\ calls[c].pc = "await"
  /\ \E text \in TalkReplies :
       calls' = [calls EXCEPT ![c].pc = "ready", ![c].reply = Some([ok |-> TRUE, text |-> text])]
  /\ event' = "oracle"
  /\ arg' = None
  /\ UNCHANGED <<decoding, enforcing, num_agents, player_enabled, engine, last, ghosts>>

NextThree ==
  \/ FirstReset
  \/ \E c \in CallIds : StepThree(c)
  \/ \E c \in CallIds : OracleReturnTalk(c)
  \/ \E c \in CallIds : Resume(c)

SpecThree == InitThree /\ [][NextThree]_vars

(* ---------------- three agents, the last one the player ---------------- *)
InitThreeWithPlayer ==
  /\ num_agents = ThreeAgents
  /\ player_enabled = TRUE
  /\ player_agent_name = None
  /\ turn = 0
  /\ agents = << >>
  /\ conversation_log = << >>
  /\ debug_history = << >>
  /\ pending_player = None
  /\ active_turn_messages = None
  /\ active_turn_debug = None
  /\ calls = [c \in OneCoroutine |-> IdleCall]
  /\ last = Result("", "", "")
  /\ event = "init"
  /\ arg = None
  /\ processed = << >>
  /\ completed = 0
  /\ oracle_failed = FALSE
  /\ decoding = NotDecoding
  /\ enforcing = NotEnforcing

\* the action objects of a player that waits, moves, talks to an agent or
\* names a direction that does not exist
PlayerChoices ==
  {Act("wait", NULL, NULL, NULL, NULL), Act("move", "north", NULL, NULL, NULL)}
  \cup {Act("move", d, NULL, NULL, NULL) : d \in DirectionSet}
  \cup {Act("talk", NULL, t, m, NULL) : t \in NameSet, m \in Messages}

NextThreeWithPlayer ==
  \/ FirstReset
  \/ \E c \in CallIds : StepThree(c)
  \/ \E c \in CallIds : \E action \in PlayerChoices : ApplyPlayerAction(c, action)
  \/ \E c \in CallIds : OracleReturnTalk(c)
  \/ \E c \in CallIds : Resume(c)

SpecThreeWithPlayer == InitThreeWithPlayer /\ [][NextThreeWithPlayer]_vars

(* ------------------- the instance shared by two callers ---------------- *)
InitShared ==
  /\ num_agents = NumAgents
  /\ player_enabled = FALSE
  /\ player_agent_name = None
  /\ turn = 0
  /\ agents = << >>
  /\ conversation_log = << >>
  /\ debug_history = << >>
  /\ pending_player = None
  /\ active_turn_messages = None
  /\ active_turn_debug = None
  /\ calls = [c \in TwoCoroutines |-> IdleCall]
  /\ last = Result("", "", "")
  /\ event = "init"
  /\ arg = None
  /\ processed = << >>
  /\ completed = 0
  /\ oracle_failed = FALSE
  /\ decoding = NotDecoding
  /\ enforcing = NotEnforcing

\* step() called by a /step request, whether or not the step() of an
\* earlier request is suspended in its query; the new coroutine is the first
\* one that is free
SharedStep(c) ==
  /\ calls[c].pc = "idle"
  /\ \A d \in CallIds : calls[d].pc = "idle" => c <= d
  /\ agents # << >>
  /\ turn < MaxTurn
  /\ StepCall(c)

NextShared ==
  \/ FirstReset
  \/ \E c \in CallIds : SharedStep(c)
  \/ \E c \in CallIds : OracleReturnTalk(c)
  \/ \E c \in CallIds : Resume(c)

SpecShared == InitShared /\ [][NextShared]_vars

(* ------------ the shared instance with the player enabled -------------- *)
InitSharedWithPlayer ==
  /\ num_agents = NumAgents
  /\ player_enabled = TRUE
  /\ player_agent_name = None
  /\ turn = 0
  /\ agents = << >>
  /\ conversation_log = << >>
  /\ debug_history = << >>
  /\ pending_player = None
  /\ active_turn_messages = None
  /\ active_turn_debug = None
  /\ calls = [c \in TwoCoroutines |-> IdleCall]
  /\ last = Result("", "", "")
  /\ event = "init"
  /\ arg = None
  /\ processed = << >>
  /\ completed = 0
  /\ oracle_failed = FALSE
  /\ decoding = NotDecoding
  /\ enforcing = NotEnforcing

\* apply_player_action called whether or not a step() is suspended in its
\* query; the new coroutine is the first one that is free
SharedApply(c, action) ==
  /\ calls[c].pc = "idle"
  /\ \A d \in CallIds : calls[d].pc = "idle" => c <= d
  /\ agents # << >>
  /\ ApplyPlayerActionCall(c, action)

\* texts of an oracle that waits, moves or talks to the player
MoveReplies ==
  {Object(<< <<"action", "wait">> >>)}
  \cup {Object(<< <<"action", "move">>, <<"direction", d>> >>) : d \in DirectionSet}
  \cup {Object(<< <<"action", "talk">>, <<"target", AgentNames[num_agents]>>, <<"message", m>> >>) :
          m \in Messages}

\* controller.run(...) of the awaited query finishes with such a text
OracleReturnMove(c) ==
  /\ calls[c].pc = "await"
  /\ \E text \in MoveReplies :
       calls' = [calls EXCEPT ![c].pc = "ready", ![c].reply = Some([ok |-> TRUE, text |-> text])]
  /\ event' = "oracle"
  /\ arg' = None
  /\ UNCHANGED <<decoding, enforcing, num_agents, player_enabled, engine, last, ghosts>>

\* the action objects of a player that waits or moves
MovingPlayerChoices ==
  {Act("wait", NULL, NULL, NULL, NULL)} \cup {Act("move", d, NULL, NULL, NULL) : d \in DirectionSet}

NextSharedWithPlayer ==
  \/ FirstReset
  \/ \E c \in CallIds : SharedStep(c)
  \/ \E c \in CallIds : \E action \in MovingPlayerChoices : SharedApply(c, action)
  \/ \E c \in CallIds : OracleReturnMove(c)
  \/ \E c \in CallIds : Resume(c)

SpecSharedWithPlayer == InitSharedWithPlayer /\ [][NextSharedWithPlayer]_vars

(* ------------------------ _parse_action on its own --------------------- *)
\* prose: words and braces
ProseTexts == UNION {[1..n -> {Prose, LBrace, RBrace}] : n \in 0..MaxProse}

\* the texts of well-formed action objects
ActionObjects ==
  {Object(<< <<"action", "wait">> >>)}
  \cup {Object(<< <<"action", "move">>, <<"direction", d>> >>) : d \in DirectionSet}
  \cup {Object(<< <<"action", "talk">>, <<"target", t>>, <<"message", m>> >>) :
          t \in {"agent1", "agent2"}, m \in Messages}

InitParse ==
  /\ decoding \in [before : ProseTexts, object : ActionObjects, after : ProseTexts,
                    result : {None}]
  /\ num_agents = NumAgents
  /\ player_enabled = FALSE
  /\ player_agent_name = None
  /\ turn = 0
  /\ agents = << >>
  /\ conversation_log = << >>
  /\ debug_history = << >>
  /\ pending_player = None
  /\ active_turn_messages = None
  /\ active_turn_debug = None
  /\ calls = [c \in OneCoroutine |-> IdleCall]
  /\ last = Result("", "", "")
  /\ event = "init"
  /\ arg = None
  /\ processed = << >>
  /\ completed = 0
  /\ oracle_failed = FALSE
  /\ enforcing = NotEnforcing

\* _parse_action(raw) with raw the prose, the object and the prose
Parse ==
  /\ decoding.result = None
  /\ decoding' = [decoding EXCEPT
                    !.result = Some(ParseAction(decoding.before \o decoding.object \o decoding.after))]
  /\ UNCHANGED <<enforcing, num_agents, player_enabled, engine, calls, last, event, arg, ghosts>>

SpecParse == InitParse /\ [][Parse]_vars

(* ---------------------- _enforce_legality on its own ------------------ *)
\* the actions _parse_action returns
DecodedActions ==
  {WaitAction}
  \cup {MoveAction(d) : d \in DirectionSet}
  \cup {TalkAction(t, m) : t \in {"agent2", "agent3", "nobody"}, m \in Messages}

\* the lists _legal_actions returns: Wait, then moves in the order of the
\* directions, then talks in the order of the agents
LegalLists ==
  {<<Legal("wait", NULL, NULL, NULL)>>
     \o [k \in 1..Len(SelectSeq(Directions, LAMBDA d : d \in ds)) |->
           Legal("move", SelectSeq(Directions, LAMBDA d : d \in ds)[k], NULL, NULL)]
     \o [k \in 1..Len(SelectSeq(<<"agent2", "agent3">>, LAMBDA t : t \in ts)) |->
           Legal("talk", NULL, SelectSeq(<<"agent2", "agent3">>, LAMBDA t : t \in ts)[k], NULL)] :
   ds \in SUBSET DirectionSet, ts \in SUBSET {"agent2", "agent3"}}

InitEnforce ==
  /\ enforcing \in [action : DecodedActions, legal_actions : LegalLists, result : {None}]
  /\ decoding = NotDecoding
  /\ num_agents = NumAgents
  /\ player_enabled = FALSE
  /\ player_agent_name = None
  /\ turn = 0
  /\ agents = << >>
  /\ conversation_log = << >>
  /\ debug_history = << >>
  /\ pending_player = None
  /\ active_turn_messages = None
  /\ active_turn_debug = None
  /\ calls = [c \in OneCoroutine |-> IdleCall]
  /\ last = Result("", "", "")
  /\ event = "init"
  /\ arg = None
  /\ processed = << >>
  /\ completed = 0
  /\ oracle_failed = FALSE

\* _enforce_legality(action, legal_actions, "agent1") of the engine and of
\* the earlier engine
Enforce ==
  /\ enforcing.result = None
  /\ enforcing' = [enforcing EXCEPT
                     !.result = Some([now |-> EnforceLegality(enforcing.action,
                                                              enforcing.legal_actions, "agent1"),
                                      earlier |-> EarlierEnforceLegality(enforcing.action,
                                                                         enforcing.legal_actions,
                                                                         "agent1")])]
  /\ UNCHANGED <<decoding, num_agents, player_enabled, engine, calls, last, event, arg, ghosts>>

SpecEnforce == InitEnforce /\ [][Enforce]_vars

(* ------------------------------ properties ----------------------------- *)
\* all debug traces of sealed turns
SealedTraces ==
  {debug_history[k].debug[j] : k \in 1..Len(debug_history), j \in 1..num_agents}

\* C1: after reset() and after any serialized sequence of step() and
\* apply_player_action() calls, no two agents occupy the same grid cell.
C1_NoSharedCell ==
  \A i, j \in 1..Len(agents) :
    i # j => <<agents[i].x, agents[i].y>> # <<agents[j].x, agents[j].y>>

\* a sealed turn in which an agent has moved
C1_Witness ==
  /\ Len(debug_history) > 0
  /\ \E t \in SealedTraces : t.notes = "Moved."

\* C2: after reset() and after any serialized sequence of calls, every
\* agent's x and y satisfy 0 <= x, y < grid_size.
C2_InBounds ==
  \A i \in 1..Len(agents) :
    /\ 0 <= agents[i].x /\ agents[i].x < GridSize
    /\ 0 <= agents[i].y /\ agents[i].y < GridSize

\* the player's move has just been applied and the turn sealed
C2_Witness ==
  /\ last = Result("apply", "sealed", "")
  /\ debug_history[Len(debug_history)].debug[num_agents].action # None
  /\ debug_history[Len(debug_history)].debug[num_agents].action[1].action = "move"
  /\ debug_history[Len(debug_history)].debug[num_agents].notes = "Moved."

\* entry number k of the debug traces of the turn in progress or, when the
\* turn has just been sealed, of the last record
TraceIn(turn_debug, history, k) ==
  IF turn_debug # None THEN turn_debug[1][k] ELSE history[Len(history)].debug[k]

\* the coroutine c has returned or raised in this step
Returns(c) == calls[c].pc # "idle" /\ calls'[c].pc = "idle"

\* the replies the degradation policy is about: undecodable text, an action
\* other than move/talk/wait, a wait, a move without a legal direction, a
\* talk without a legal target or without a message string
Degrading(text, legal_actions) ==
  LET found == ExtractJsonBlock(text)
  IN  \/ found = None
      \/ ~JsonValid(found[1])
      \/ LET action == JsonGet(found[1], "action")
         IN  \/ action \notin {"move", "talk"}
             \/ /\ action = "move"
                /\ JsonGet(found[1], "direction") \notin LegalDirections(legal_actions)
             \/ /\ action = "talk"
                /\ \/ JsonGet(found[1], "target") \notin LegalTargets(legal_actions)
                   \/ ~IsStr(JsonGet(found[1], "message"))

\* C3: in an autonomous agent's slot every malformed or illegal oracle reply,
\* and every reply that decodes to wait, makes the agent take Wait: the call
\* does not raise because of the reply, the agent's trace records a wait and
\* the agent stays where it is.
C3_BadReplyDegradesToWait ==
  [][\A c \in CallIds :
       (/\ calls[c].pc = "ready"
        /\ calls[c].reply[1].ok
        /\ Degrading(calls[c].reply[1].text, calls[c].legal_actions))
       => /\ ~(Returns(c) /\ last'.outcome = "error")
          /\ TraceIn(active_turn_debug', debug_history', calls[c].entry).action # None
          /\ TraceIn(active_turn_debug', debug_history', calls[c].entry).action[1].action = "wait"
          /\ agents'[calls[c].idx].x = agents[calls[c].idx].x
          /\ agents'[calls[c].idx].y = agents[calls[c].idx].y]_vars

\* the displacement the claim gives for each direction
C4_Delta(direction) ==
  CASE direction = "up" -> <<0, -1>>
    [] direction = "down" -> <<0, 1>>
    [] direction = "left" -> <<-1, 0>>
    [] direction = "right" -> <<1, 0>>

\* C4: when the oracle of an autonomous agent returns Move{d} with d in the
\* legal set computed at the start of the slot, the action recorded for the
\* agent is that Move and the agent ends the slot displaced by the delta of d.
C4_LegalOracleMoveIsApplied ==
  [][\A c \in CallIds :
       (/\ calls[c].pc = "ready"
        /\ calls[c].reply[1].ok
        /\ ParseAction(calls[c].reply[1].text).raised = ""
        /\ ParseAction(calls[c].reply[1].text).value.action = "move"
        /\ ParseAction(calls[c].reply[1].text).value.direction
             \in LegalDirections(calls[c].legal_actions))
       => LET d == ParseAction(calls[c].reply[1].text).value.direction
          IN  /\ ~(Returns(c) /\ last'.outcome = "error")
              /\ TraceIn(active_turn_debug', debug_history', calls[c].entry).action
                   = Some(MoveAction(d))
              /\ agents'[calls[c].idx].x = agents[calls[c].idx].x + C4_Delta(d)[1]
              /\ agents'[calls[c].idx].y = agents[calls[c].idx].y + C4_Delta(d)[2]]_vars

\* C5: with no interactive participant and an oracle that always returns
\* some text, every step() after reset() returns a sealed record, so that
\* after n calls (the turn counter counts them) history has n records.
C5_StepAlwaysSeals ==
  (/\ ~player_enabled
   /\ agents # << >>
   /\ ~oracle_failed
   /\ NoCallInFlight)
  => /\ Len(debug_history) = turn
     /\ last.op = "step" => last.outcome = "sealed"

\* C6: the length of history is the number of turns in which every agent
\* was processed; every record carries a filled trace of every agent, and a
\* turn that is suspended for the player or was aborted by an error (its
\* accumulated lists are still there) has no record.
C6_HistoryCountsSealedTurns ==
  /\ Len(debug_history) = completed
  /\ \A k \in 1..Len(debug_history) :
       /\ Len(debug_history[k].debug) = Len(agents)
       /\ \A j \in 1..Len(debug_history[k].debug) : debug_history[k].debug[j].action # None
  /\ active_turn_debug # None => \A k \in 1..Len(debug_history) : debug_history[k].turn # turn

\* one turn sealed, then an aborted turn left behind by a raising call
C6_Witness ==
  /\ Len(debug_history) = 1
  /\ turn = 2
  /\ NoCallInFlight
  /\ last.outcome = "error"
  /\ active_turn_debug # None

\* C7: apply_player_action with an invalid action while a player decision is
\* pending raises and leaves the engine as it was: still awaiting the same
\* agent with the same frozen legal set.
C7_InvalidPlayerActionChangesNothing ==
  [][(/\ pending_player # None
      /\ event' = "apply"
      /\ NoCallInFlight'
      /\ last'.outcome = "error")
     => UNCHANGED engine]_vars

\* C8: step() while a player decision is pending raises and changes nothing:
\* turn counter, positions, inboxes, pending request, accumulated messages
\* and traces, conversation log and history are as before the call.
C8_StepWhilePendingChangesNothing ==
  [][(pending_player # None /\ event' = "step")
     => /\ last' = Result("step", "error", "RuntimeError: awaiting player")
        /\ NoCallInFlight'
        /\ UNCHANGED <<turn, agents, pending_player, active_turn_messages, active_turn_debug,
                       conversation_log, debug_history>>]_vars

\* step() has just been refused while the player's decision is pending
C8_Witness ==
  /\ pending_player # None
  /\ event = "step"
  /\ last = Result("step", "error", "RuntimeError: awaiting player")
  /\ turn < MaxTurn

\* C9: apply_player_action when no player decision is pending raises and
\* leaves positions, inboxes, turn counter, conversation log and history
\* unchanged.
C9_ApplyWithoutPendingChangesNothing ==
  [][(pending_player = None /\ event' = "apply")
     => /\ last'.op = "apply"
        /\ last'.outcome = "error"
        /\ NoCallInFlight'
        /\ UNCHANGED <<turn, agents, conversation_log, debug_history>>]_vars

\* apply_player_action has just been refused after a sealed turn
C9_Witness ==
  /\ event = "apply"
  /\ last = Result("apply", "error", "RuntimeError: no player action pending")
  /\ Len(debug_history) > 0
  /\ active_turn_debug = None

\* C10: with the interactive participant enabled a step() that starts a turn
\* (the oracle answering every query with some text) suspends at the
\* interactive agent's slot: it returns a pending request naming that agent,
\* with a frozen legal list containing Wait; every agent before it has been
\* processed exactly once, none after it, and history has no record of the
\* turn.
C10_StepSuspendsAtPlayer ==
  (/\ player_enabled
   /\ ~oracle_failed
   /\ NoCallInFlight
   /\ last.op = "step"
   /\ last.error \notin {"RuntimeError: not initialised", "RuntimeError: awaiting player"})
  => /\ last.outcome = "pending"
     /\ pending_player # None
     /\ Some(agents[pending_player[1].agent_index].name) = player_agent_name
     /\ \E k \in 1..Len(pending_player[1].legal_actions) :
          pending_player[1].legal_actions[k].action = "wait"
     /\ processed = [k \in 1..(pending_player[1].agent_index - 1) |-> k]
     /\ \A k \in 1..Len(debug_history) : debug_history[k].turn # turn

\* an action the player may choose: wait (or no action named), a move of the
\* frozen legal set, a talk to a target of the frozen legal set
C11_Valid(a, legal_actions) ==
  /\ a # NotADict
  /\ \/ a.action \in {"wait", NULL}
     \/ a.action = "move" /\ a.direction \in LegalDirections(legal_actions)
     \/ a.action = "talk" /\ a.target \in LegalTargets(legal_actions)

\* what the valid action a of agent i has done between two states
C11_Applied(i, a, recorded) ==
  IF a.action = "move"
  THEN /\ recorded = MoveAction(a.direction)
       /\ agents'[i].x = agents[i].x + C4_Delta(a.direction)[1]
       /\ agents'[i].y = agents[i].y + C4_Delta(a.direction)[2]
       /\ conversation_log' = conversation_log
  ELSE IF a.action = "talk"
  THEN /\ recorded.action = "talk"
       /\ recorded.target = a.target
       /\ IsStr(recorded.message)
       /\ (IsStr(a.message) /\ a.message \notin {"", Blank}) => recorded.message = a.message
       /\ conversation_log' = Append(conversation_log,
                                     [from |-> agents[i].name, to |-> a.target,
                                      message |-> recorded.message, turn |-> turn])
       /\ \A k \in 1..Len(agents) : agents'[k].x = agents[k].x /\ agents'[k].y = agents[k].y
  ELSE /\ recorded.action = "wait"
       /\ conversation_log' = conversation_log
       /\ \A k \in 1..Len(agents) : agents'[k].x = agents[k].x /\ agents'[k].y = agents[k].y

\* C11: while a player decision is pending for agent i, apply_player_action
\* with a valid action does not raise, applies the action to agent i, fills
\* agent i's skeletal trace, leaves the traces of the agents before i as they
\* are, goes on with agent i+1 and, when that completes the turn, seals
\* exactly one record and leaves nothing pending.
C11_ValidPlayerActionResumes ==
  [][(/\ pending_player # None
      /\ event' = "apply"
      /\ arg' # None
      /\ C11_Valid(arg'[1], pending_player[1].legal_actions))
     => LET i == pending_player[1].agent_index
            trace == TraceIn(active_turn_debug', debug_history', i)
        IN  /\ last'.op = "apply"
            /\ last'.outcome # "error"
            /\ active_turn_debug[1][i].action = None
            /\ trace.action # None
            /\ C11_Applied(i, arg'[1], trace.action[1])
            /\ \A k \in 1..(i - 1) :
                 TraceIn(active_turn_debug', debug_history', k) = active_turn_debug[1][k]
            /\ processed' = Append(processed, i)
            /\ turn' = turn
            /\ IF i = Len(agents)
               THEN /\ last'.outcome = "sealed"
                    /\ NoCallInFlight'
                    /\ Len(debug_history') = Len(debug_history) + 1
                    /\ Len(debug_history'[Len(debug_history')].debug) = Len(agents)
                    /\ pending_player' = None
               ELSE /\ debug_history' = debug_history
                    /\ Len(active_turn_debug'[1]) = i + 1
                    /\ active_turn_debug'[1][i + 1].agent = agents[i + 1].name]_vars

\* the player's talk has just been delivered and the turn sealed
C11_Witness ==
  /\ event = "apply"
  /\ last = Result("apply", "sealed", "")
  /\ arg # None
  /\ arg[1].action = "talk"
  /\ Len(conversation_log) > 0
  /\ Some(conversation_log[Len(conversation_log)].from) = player_agent_name
  /\ debug_history[Len(debug_history)].debug[num_agents].notes = "Spoke."

\* C12: the agents stand in ascending order of name, as reset() has put
\* them; within a turn, suspended and resumed or not, they are processed in
\* that order, each at most once; the traces of a turn, in progress or
\* sealed, follow that order and a sealed record has one trace per agent.
C12_EachAgentOnceInOrder ==
  /\ \A j \in 1..Len(agents) : agents[j].name = AgentName(j)
  /\ Len(processed) <= Len(agents)
  /\ processed = [k \in 1..Len(processed) |-> k]
  /\ active_turn_debug # None =>
       /\ Len(active_turn_debug[1]) <= Len(agents)
       /\ Len(active_turn_debug[1]) - Len(processed) \in {0, 1}
       /\ \A k \in 1..Len(active_turn_debug[1]) : active_turn_debug[1][k].agent = AgentName(k)
  /\ \A r \in 1..Len(debug_history) :
       /\ Len(debug_history[r].debug) = Len(agents)
       /\ \A k \in 1..Len(agents) : debug_history[r].debug[k].agent = AgentName(k)

\* two turns, each suspended for the player and sealed by the resumption
C12_Witness ==
  /\ event = "apply"
  /\ last.outcome = "sealed"
  /\ Len(debug_history) = 2
  /\ processed = <<1, 2>>

\* the slot completed by this step, if any: its agent and the action recorded
SlotDone == processed' # processed /\ Len(processed') > 0
DoneIdx == processed'[Len(processed')]
DoneAction == TraceIn(active_turn_debug', debug_history', DoneIdx).action[1]

\* orthogonal neighbours: Manhattan distance exactly 1
C13_Neighbours(a, b) ==
  (IF a.x >= b.x THEN a.x - b.x ELSE b.x - a.x) + (IF a.y >= b.y THEN a.y - b.y ELSE b.y - a.y) = 1

\* C13: when an agent's talk to a target is applied, one entry is appended to
\* the conversation log if and only if the two are orthogonal neighbours at
\* that moment; a wait or a move appends nothing, and the log changes in no
\* step that does not apply an action (reset() apart, which empties it).
C13_TalkLoggedIffAdjacent ==
  [][/\ (SlotDone /\ DoneAction.action = "talk") =>
          LET near == \E t \in 1..Len(agents) :
                        /\ agents[t].name = DoneAction.target
                        /\ C13_Neighbours(agents[DoneIdx], agents[t])
          IN  IF near THEN Len(conversation_log') = Len(conversation_log) + 1
                      ELSE conversation_log' = conversation_log
     /\ (SlotDone /\ DoneAction.action # "talk") => conversation_log' = conversation_log
     /\ (~SlotDone /\ event' # "reset") => conversation_log' = conversation_log]_vars

\* an autonomous agent's talk has just been delivered
C13_Witness ==
  /\ event = "resume"
  /\ Len(processed) > 0
  /\ TraceIn(active_turn_debug, debug_history, processed[Len(processed)]).notes = "Spoke."
  /\ Len(conversation_log) > 0
  /\ conversation_log[Len(conversation_log)].turn = turn

\* a slot is begun by this step, and which
SlotBegun ==
  /\ active_turn_debug' # None
  /\ \/ turn' # turn
     \/ active_turn_debug # None /\ Len(active_turn_debug'[1]) > Len(active_turn_debug[1])
BegunIdx == Len(active_turn_debug'[1])

\* a talk is delivered by this step
Delivered == Len(conversation_log') = Len(conversation_log) + 1

\* the delivered messages of the turn, in progress or just sealed
TurnMessagesIn(turn_messages, history) ==
  IF turn_messages # None THEN turn_messages[1] ELSE history[Len(history)].turnMessages

\* C14: a delivered talk of agent a adds the entry {from: a, to: target,
\* message, turn} to the conversation log and to the delivered messages of
\* the turn, once each, and the target's inbox becomes {from: a, message}
\* whatever it held; an inbox changes only by a delivery or when its owner's
\* slot begins, and a slot that begins in the same step is shown the message
\* just delivered.
C14_DeliveryFillsLogAndInbox ==
  [][/\ Delivered =>
          /\ SlotDone
          /\ DoneAction.action = "talk"
          /\ LET a == agents[DoneIdx].name
                 t == CHOOSE k \in 1..Len(agents) : agents[k].name = DoneAction.target
                 payload == [from |-> a, to |-> DoneAction.target,
                             message |-> DoneAction.message, turn |-> turn]
                 inbox == Some([from |-> a, message |-> DoneAction.message])
             IN  /\ turn' = turn
                 /\ conversation_log' = Append(conversation_log, payload)
                 /\ TurnMessagesIn(active_turn_messages', debug_history')
                      = Append(active_turn_messages[1], payload)
                 /\ IF SlotBegun /\ BegunIdx = t
                    THEN /\ active_turn_debug'[1][t].message = inbox
                         /\ agents'[t].inbox = None
                    ELSE agents'[t].inbox = inbox
                 /\ \A k \in 1..Len(agents) :
                      (k # t /\ ~(SlotBegun /\ BegunIdx = k)) => agents'[k].inbox = agents[k].inbox
     /\ (~Delivered /\ event' # "reset") =>
          \A k \in 1..Len(agents) :
            ~(SlotBegun /\ BegunIdx = k) => agents'[k].inbox = agents[k].inbox]_vars

\* a message waiting in an inbox has just been replaced by the next one
C14_Witness ==
  /\ event = "resume"
  /\ Len(conversation_log) >= 2
  /\ LET new == conversation_log[Len(conversation_log)]
         old == conversation_log[Len(conversation_log) - 1]
     IN  /\ new.to = old.to
         /\ new.from # old.from
         /\ new.turn = turn
         /\ old.turn = turn
         /\ \E k \in 1..Len(agents) :
              /\ agents[k].name = new.to
              /\ agents[k].inbox = Some([from |-> new.from, message |-> new.message])

\* how many traces, sealed or of the turn in progress, show agent `name` a message
ShownTo(name) ==
  Cardinality({rj \in {<<r, j>> : r \in 1..Len(debug_history), j \in 1..Len(agents)} :
                 /\ debug_history[rj[1]].debug[rj[2]].agent = name
                 /\ debug_history[rj[1]].debug[rj[2]].message # None})
  + (IF active_turn_debug = None THEN 0
     ELSE Cardinality({j \in 1..Len(active_turn_debug[1]) :
                         /\ active_turn_debug[1][j].agent = name
                         /\ active_turn_debug[1][j].message # None}))

\* how many messages have been delivered to agent `name`
DeliveredTo(name) ==
  Cardinality({i \in 1..Len(conversation_log) : conversation_log[i].to = name})

\* no agent has been shown more messages than were delivered to it
C15_ShownAtMostOnce ==
  \A k \in 1..Len(agents) : ShownTo(agents[k].name) <= DeliveredTo(agents[k].name)

\* a slot that begins is shown the message waiting in its agent's inbox (the
\* one delivered in this very step, if there is one) and leaves the inbox
\* empty; the inbox is still empty when the slot is completed
C15_SlotTakesInbox ==
  /\ SlotBegun =>
       LET k == BegunIdx
           waiting == IF Delivered /\ DoneAction.target = agents[k].name
                      THEN Some([from |-> agents[DoneIdx].name, message |-> DoneAction.message])
                      ELSE agents[k].inbox
       IN  /\ active_turn_debug'[1][k].agent = agents[k].name
           /\ active_turn_debug'[1][k].message = waiting
           /\ agents'[k].inbox = None
  /\ SlotDone => agents'[DoneIdx].inbox = None

\* C15: at the start of an agent's own slot, autonomous or interactive, the
\* message waiting in its inbox, if any, is put into its observation and the
\* inbox is then empty, whatever the agent goes on to do; so no agent is
\* shown more messages than were delivered to it.
C15_InboxReadOnceAtSlotStart ==
  /\ []C15_ShownAtMostOnce
  /\ [][C15_SlotTakesInbox]_vars

\* the player's slot has begun with a message of this turn in its observation
C15_Witness ==
  /\ pending_player # None
  /\ active_turn_debug # None
  /\ LET k == pending_player[1].agent_index
     IN  /\ active_turn_debug[1][k].message # None
         /\ agents[k].inbox = None
         /\ Len(conversation_log) > 0
         /\ conversation_log[Len(conversation_log)].to = agents[k].name

\* the place of a direction in the order up, down, left, right
C16_Rank(d) ==
  CASE d = "up" -> 1
    [] d = "down" -> 2
    [] d = "left" -> 3
    [] d = "right" -> 4
    [] OTHER -> 0

\* the cell agent i would move to in direction d is inside the grid and no
\* other agent stands on it
C16_Free(i, d) ==
  LET x == agents[i].x + C4_Delta(d)[1]
      y == agents[i].y + C4_Delta(d)[2]
  IN  /\ x \in 0..(GridSize - 1)
      /\ y \in 0..(GridSize - 1)
      /\ \A k \in 1..Len(agents) : k # i => <<agents[k].x, agents[k].y>> # <<x, y>>

\* the list is Wait, then moves, then talks, with exactly the moves and
\* talks the board allows agent i, the moves in the order of the directions
\* and the talks in the order of the agents
C16_ListFor(i, legal) ==
  /\ Len(legal) >= 1
  /\ legal[1] = Legal("wait", NULL, NULL, NULL)
  /\ \E m \in 0..4 :
       /\ 1 + m <= Len(legal)
       /\ \A k \in 2..(1 + m) :
            /\ legal[k].action = "move"
            /\ legal[k] = Legal("move", legal[k].direction, NULL, NULL)
            /\ k > 2 => C16_Rank(legal[k - 1].direction) < C16_Rank(legal[k].direction)
       /\ {legal[k].direction : k \in 2..(1 + m)} = {d \in {"up", "down", "left", "right"} : C16_Free(i, d)}
       /\ \A k \in (2 + m)..Len(legal) :
            /\ legal[k].action = "talk"
            /\ legal[k] = Legal("talk", NULL, legal[k].target, NULL)
            /\ \E j \in 1..Len(agents) :
                 /\ agents[j].name = legal[k].target
                 /\ k > 2 + m => \E h \in 1..(j - 1) : agents[h].name = legal[k - 1].target
       /\ {legal[k].target : k \in (2 + m)..Len(legal)}
            = {agents[j].name : j \in {h \in 1..Len(agents) :
                                         h # i /\ C13_Neighbours(agents[i], agents[h])}}

Extends(after, before) ==
  /\ Len(after) >= Len(before)
  /\ \A k \in 1..Len(before) : after[k] = before[k]

\* C17: every step of a step() or apply_player_action() call, whether the
\* call goes on, suspends, returns or raises, leaves every sealed record and
\* every entry of the conversation log as it is and where it is: both lists
\* only grow at the end.
C17_CallsOnlyAppend ==
  [][event' \in {"step", "apply", "oracle", "resume"}
     => /\ Extends(debug_history', debug_history)
        /\ Extends(conversation_log', conversation_log)]_vars

\* a call has raised with a sealed record and a log entry behind it
C17_Witness ==
  /\ last.outcome = "error"
  /\ event \in {"resume", "apply"}
  /\ Len(debug_history) > 0
  /\ Len(conversation_log) > 0
  /\ debug_history[1].turnMessages # << >>

\* C18 as stated: no step of any method, reset() included, shortens history
\* or the conversation log.
C18_NeverTruncated ==
  [][/\ Len(debug_history') >= Len(debug_history)
     /\ Len(conversation_log') >= Len(conversation_log)]_vars

\* C18 as amended: no step of step() or apply_player_action() shortens
\* history or the conversation log; reset() empties both.
C18_OnlyResetTruncates ==
  [][/\ event' # "reset" =>
          /\ Len(debug_history') >= Len(debug_history)
          /\ Len(conversation_log') >= Len(conversation_log)
     /\ event' = "reset" =>
          /\ debug_history' = << >>
          /\ conversation_log' = << >>]_vars

\* both lists have grown over two turns
C18_Witness ==
  /\ Len(debug_history) = 2
  /\ Len(conversation_log) >= 2
  /\ conversation_log[1].turn = 1
  /\ conversation_log[Len(conversation_log)].turn = 2

\* an action of one of the three shapes
C19_WellFormed(a) ==
  \/ a.action = "wait"
  \/ a.action = "move" /\ a.direction \in {"up", "down", "left", "right"}
  \/ a.action = "talk" /\ IsStr(a.target) /\ IsStr(a.message)

\* C19: in every sealed turn result each agent's trace carries an action
\* that is not null and is a wait, a move with one of the four directions,
\* or a talk with a target and a string message.
C19_SealedActionsWellFormed ==
  \A r \in 1..Len(debug_history) :
    \A j \in 1..Len(debug_history[r].debug) :
      /\ debug_history[r].debug[j].action # None
      /\ C19_WellFormed(debug_history[r].debug[j].action[1])

\* a sealed turn with a talk of an autonomous agent and a move of the player
C19_Witness ==
  \E r \in 1..Len(debug_history) :
    /\ debug_history[r].debug[1].action # None
    /\ debug_history[r].debug[1].action[1].action = "talk"
    /\ debug_history[r].debug[Len(agents)].action # None
    /\ debug_history[r].debug[Len(agents)].action[1].action = "move"

\* C20: whenever a turn is sealed, the record that has become the last of
\* history carries the engine's turn counter as its turn number, and no
\* player decision is pending.
C20_SealedRecordCarriesTurn ==
  [][Len(debug_history') = Len(debug_history) + 1
     => /\ debug_history'[Len(debug_history')].turn = turn'
        /\ debug_history'[Len(debug_history')].snapshot.turn = turn'
        /\ pending_player' = None
        /\ last'.outcome = "sealed"]_vars

\* a turn has just been sealed after an earlier turn was aborted
C20_Witness ==
  /\ last.outcome = "sealed"
  /\ NoCallInFlight
  /\ turn = 2
  /\ Len(debug_history) = 1
  /\ debug_history[1].turn = 2

\* an action object the player may not choose: not an object, an action
\* string other than move, talk and wait, a move whose direction or a talk
\* whose target is not in the frozen legal list
C21_Invalid(a, legal_actions) ==
  \/ a = NotADict
  \/ a.action \notin {"move", "talk", "wait", NULL}
  \/ /\ a.action = "move"
     /\ ~ \E k \in 1..Len(legal_actions) :
            legal_actions[k].action = "move" /\ legal_actions[k].direction = a.direction
  \/ /\ a.action = "talk"
     /\ ~ \E k \in 1..Len(legal_actions) :
            legal_actions[k].action = "talk" /\ legal_actions[k].target = a.target

\* C21: apply_player_action with an action that is structurally invalid or
\* names a direction or target outside the frozen legal set raises a
\* ValueError; the action is not turned into a wait: the player's trace stays
\* without action, no position, inbox, log entry or trace changes, no later
\* agent is processed and no record is sealed.
C21_InvalidPlayerActionRejected ==
  [][(/\ pending_player # None
      /\ event' = "apply"
      /\ arg' # None
      /\ C21_Invalid(arg'[1], pending_player[1].legal_actions))
     => LET i == pending_player[1].agent_index
        IN  /\ last'.op = "apply"
            /\ last'.outcome = "error"
            /\ last'.error \in {"ValueError: not an object", "ValueError: direction not allowed",
                                "ValueError: target not available",
                                "ValueError: unsupported action"}
            /\ NoCallInFlight'
            /\ agents' = agents
            /\ conversation_log' = conversation_log
            /\ debug_history' = debug_history
            /\ active_turn_messages' = active_turn_messages
            /\ active_turn_debug' = active_turn_debug
            /\ active_turn_debug'[1][i].action = None
            /\ active_turn_debug'[1][i].notes = NULL
            /\ processed' = processed
            /\ turn' = turn]_vars

\* a move in a direction outside the frozen legal set has just been rejected
C21_Witness ==
  /\ event = "apply"
  /\ arg # None
  /\ arg[1].action = "move"
  /\ arg[1].direction \in DirectionSet
  /\ last = Result("apply", "error", "ValueError: direction not allowed")
  /\ active_turn_debug # None
  /\ active_turn_debug[1][Len(active_turn_debug[1])].action = None

\* the cell agent i would move to in direction d
C22_Dest(i, d) == <<agents[i].x + C4_Delta(d)[1], agents[i].y + C4_Delta(d)[2]>>

\* agent k has not moved in the turn in progress
C22_NotMoved(k) ==
  \/ active_turn_debug = None
  \/ k > Len(active_turn_debug[1])
  \/ active_turn_debug[1][k].notes # "Moved."

\* the cell agent i would move to holds another agent, which has not moved
\* this turn
C22_Occupied(i, d) ==
  \E k \in 1..Len(agents) :
    /\ k # i
    /\ <<agents[k].x, agents[k].y>> = C22_Dest(i, d)
    /\ C22_NotMoved(k)

\* the oracle's reply to coroutine c decodes to a move into such a cell
C22_OracleMovesIntoOccupied(c) ==
  /\ calls[c].pc = "ready"
  /\ calls[c].reply[1].ok
  /\ ParseAction(calls[c].reply[1].text).raised = ""
  /\ ParseAction(calls[c].reply[1].text).value.action = "move"
  /\ C22_Occupied(calls[c].idx, ParseAction(calls[c].reply[1].text).value.direction)

\* C22 as stated: when an agent's decision is a move into a cell occupied by
\* another agent that has not yet moved this turn, the agent stays where it
\* is and the note of its trace records that the move was blocked.
C22_BlockedMoveNoted ==
  [][\A c \in CallIds :
       C22_OracleMovesIntoOccupied(c)
       => /\ agents'[calls[c].idx].x = agents[calls[c].idx].x
          /\ agents'[calls[c].idx].y = agents[calls[c].idx].y
          /\ TraceIn(active_turn_debug', debug_history', calls[c].entry).notes
               = "Move blocked; stayed in place."]_vars

\* C22 as amended: such a move never reaches its application.  An
\* autonomous agent's is replaced by a wait that carries the note of the
\* rejected move, the agent stays where it is and the note of its trace is
\* that of a wait; the player's is rejected with an error and its trace has
\* no note.
C22_OccupiedMoveNeverApplied ==
  [][/\ \A c \in CallIds :
          C22_OracleMovesIntoOccupied(c)
          => /\ ~(Returns(c) /\ last'.outcome = "error")
             /\ agents'[calls[c].idx].x = agents[calls[c].idx].x
             /\ agents'[calls[c].idx].y = agents[calls[c].idx].y
             /\ TraceIn(active_turn_debug', debug_history', calls[c].entry).action
                  = Some(Act("wait", NULL, NULL, NULL, "Illegal move rejected"))
             /\ TraceIn(active_turn_debug', debug_history', calls[c].entry).notes = "Waited."
     /\ (/\ pending_player # None
         /\ event' = "apply"
         /\ arg' # None
         /\ arg'[1].action = "move"
         /\ arg'[1].direction \in {"up", "down", "left", "right"}
         /\ C22_Occupied(pending_player[1].agent_index, arg'[1].direction))
        => /\ last' = Result("apply", "error", "ValueError: direction not allowed")
           /\ agents' = agents
           /\ active_turn_debug'[1][pending_player[1].agent_index].notes = NULL]_vars

\* an autonomous agent next to another one has had a move rejected, and a
\* direction that stays inside the grid is missing from its legal list
C22_Witness ==
  /\ event = "resume"
  /\ Len(processed) > 0
  /\ LET i == processed[Len(processed)]
         trace == TraceIn(active_turn_debug, debug_history, i)
     IN  /\ trace.action = Some(Act("wait", NULL, NULL, NULL, "Illegal move rejected"))
         /\ trace.notes = "Waited."
         /\ \E d \in DirectionSet :
              /\ d \notin LegalDirections(trace.legal_actions)
              /\ C22_Dest(i, d)[1] \in 0..(GridSize - 1)
              /\ C22_Dest(i, d)[2] \in 0..(GridSize - 1)

\* C23: when the oracle query for agent i fails, the call raises that
\* error to its caller; positions, inboxes, the conversation log and the
\* delivered messages of the turn stay as the agents before i have left
\* them, no further agent is processed, agent i's trace stays without
\* action, and history gets no record of the turn.
C23_OracleFailureAbortsTurn ==
  [][\A c \in CallIds :
       (calls[c].pc = "ready" /\ ~calls[c].reply[1].ok)
       => /\ Returns(c)
          /\ last' = Result(calls[c].op, "error", "RuntimeError: no textual action")
          /\ agents' = agents
          /\ conversation_log' = conversation_log
          /\ active_turn_messages' = active_turn_messages
          /\ active_turn_debug' = active_turn_debug
          /\ active_turn_debug'[1][calls[c].entry].action = None
          /\ processed' = processed
          /\ processed = [k \in 1..(calls[c].idx - 1) |-> k]
          /\ turn' = turn
          /\ debug_history' = debug_history
          /\ \A k \in 1..Len(debug_history') : debug_history'[k].turn # turn']_vars

\* the query for the second agent has just failed, after the first agent's
\* talk of this turn was delivered
C23_Witness ==
  /\ event = "resume"
  /\ last = Result("step", "error", "RuntimeError: no textual action")
  /\ processed = <<1>>
  /\ active_turn_debug # None
  /\ Len(active_turn_debug[1]) = 2
  /\ active_turn_debug[1][1].notes = "Spoke."
  /\ active_turn_debug[1][2].action = None
  /\ Len(conversation_log) > 0
  /\ conversation_log[Len(conversation_log)].turn = turn
  /\ conversation_log[Len(conversation_log)].from = agents[1].name

\* the slots that have begun and wait for their decision: the agent and
\* the legal list the waiting coroutine or the pending request holds
C24_Waiting ==
  {<<calls[c].idx, calls[c].legal_actions>> : c \in {d \in CallIds : calls[d].pc \in {"await", "ready"}}}
  \cup (IF pending_player = None THEN {}
        ELSE {<<pending_player[1].agent_index, pending_player[1].legal_actions>>})

\* a legal list without the display names added to its talks
C24_Untitled(legal) == [k \in 1..Len(legal) |-> [legal[k] EXCEPT !.target_title = NULL]]

C25_OneTurnAtATime ==
  [][(event' = "step" /\ \E c \in CallIds : calls[c].pc \in {"await", "ready"})
     => /\ turn' = turn
        /\ active_turn_messages' = active_turn_messages
        /\ active_turn_debug' = active_turn_debug]_vars

\* the display name of an autonomous agent: the title of its persona
C26_DisplayName(name) ==
  CASE name = "agent1" -> "Alex"
    [] name = "agent2" -> "Blair"
    [] name = "agent3" -> "Kai"
    [] OTHER -> name

\* C26: a player talk to a target of the frozen legal set whose message is
\* missing, not a string or blank is not rejected: the action recorded and
\* delivered is that talk with the greeting addressed to the target's
\* display name as its message; it is appended to the conversation log and
\* put into the target's inbox.
C26_TalkWithoutMessageGreets ==
  [][(/\ pending_player # None
      /\ event' = "apply"
      /\ arg' # None
      /\ arg'[1].action = "talk"
      /\ arg'[1].target \in LegalTargets(pending_player[1].legal_actions)
      /\ arg'[1].message \in {NULL, NUM, LIST, "", " "})
     => LET i == pending_player[1].agent_index
            target == arg'[1].target
            greeting == "Hey " \o C26_DisplayName(target) \o ", let's keep moving!"
            t == CHOOSE k \in 1..Len(agents) : agents[k].name = target
        IN  /\ last'.op = "apply"
            /\ last'.outcome # "error"
            /\ TraceIn(active_turn_debug', debug_history', i).action
                 = Some(TalkAction(target, greeting))
            /\ TraceIn(active_turn_debug', debug_history', i).notes = "Spoke."
            /\ conversation_log' = Append(conversation_log,
                                          [from |-> agents[i].name, to |-> target,
                                           message |-> greeting, turn |-> turn])
            /\ \/ agents'[t].inbox = Some([from |-> agents[i].name, message |-> greeting])
               \/ /\ SlotBegun
                  /\ BegunIdx = t
                  /\ active_turn_debug'[1][t].message
                       = Some([from |-> agents[i].name, message |-> greeting])]_vars

\* the player's talk with a message that is not a string has just been
\* delivered as a greeting
C26_Witness ==
  /\ event = "apply"
  /\ arg # None
  /\ arg[1].action = "talk"
  /\ arg[1].message = NUM
  /\ last = Result("apply", "sealed", "")
  /\ Len(conversation_log) > 0
  /\ conversation_log[Len(conversation_log)].message = "Hey Alex, let's keep moving!"
  /\ agents[1].inbox = Some([from |-> agents[2].name, message |-> "Hey Alex, let's keep moving!"])

\* C27: apply_player_action with an object whose action is "wait" or absent
\* does not raise; the action recorded for the player is a wait, no position
\* and no inbox changes, nothing is added to the conversation log, and the
\* turn goes on after the player's slot: the player being the last agent,
\* it is sealed.
C27_PlayerWaitResolves ==
  [][(/\ pending_player # None
      /\ event' = "apply"
      /\ arg' # None
      /\ arg'[1] # NotADict
      /\ arg'[1].action \in {"wait", NULL})
     => LET i == pending_player[1].agent_index
        IN  /\ last'.op = "apply"
            /\ last'.outcome # "error"
            /\ TraceIn(active_turn_debug', debug_history', i).action
                 = Some([action |-> "wait", direction |-> NULL, target |-> NULL,
                         message |-> NULL, notes |-> NULL])
            /\ TraceIn(active_turn_debug', debug_history', i).notes = "Waited."
            /\ \A k \in 1..Len(agents) :
                 /\ agents'[k].x = agents[k].x
                 /\ agents'[k].y = agents[k].y
                 /\ agents'[k].inbox = agents[k].inbox
            /\ conversation_log' = conversation_log
            /\ processed' = Append(processed, i)
            /\ pending_player' = None
            /\ IF i = Len(agents)
               THEN /\ last'.outcome = "sealed"
                    /\ Len(debug_history') = Len(debug_history) + 1
               ELSE /\ debug_history' = debug_history
                    /\ active_turn_debug'[1][i + 1].agent = agents[i + 1].name]_vars

\* an object without an action has just been taken for the player's wait,
\* in a slot that had begun with a message for the player
C27_Witness ==
  /\ event = "apply"
  /\ arg # None
  /\ arg[1] # NotADict
  /\ arg[1].action = NULL
  /\ last = Result("apply", "sealed", "")
  /\ debug_history[Len(debug_history)].debug[num_agents].notes = "Waited."
  /\ debug_history[Len(debug_history)].debug[num_agents].message # None

\* the action a well-formed object stands for
C28_ActionOf(object) ==
  CASE object[2][2] = "wait" -> [action |-> "wait", direction |-> NULL, target |-> NULL,
                                 message |-> NULL, notes |-> NULL]
    [] object[2][2] = "move" -> [action |-> "move", direction |-> object[3][2], target |-> NULL,
                                 message |-> NULL, notes |-> NULL]
    [] object[2][2] = "talk" -> [action |-> "talk", direction |-> NULL, target |-> object[3][2],
                                 message |-> object[4][2], notes |-> NULL]

\* C28: a well-formed action object decodes to its action whatever prose
\* stands before and after it, prose with braces included.
C28_ProseNeverChangesAction ==
  decoding.result # None =>
    /\ decoding.result[1].raised = ""
    /\ decoding.result[1].value = C28_ActionOf(decoding.object)

\* C29: as long as reset() has not been called (the instance has no
\* agents), every step() and apply_player_action() has raised and the
\* instance is as constructed: turn counter 0, empty history and
\* conversation log, nothing pending and no turn begun.
C29_BeforeResetCallsRaise ==
  agents = << >> =>
    /\ turn = 0
    /\ debug_history = << >>
    /\ conversation_log = << >>
    /\ pending_player = None
    /\ active_turn_messages = None
    /\ active_turn_debug = None
    /\ NoCallInFlight
    /\ last \in {[op |-> "", outcome |-> "", error |-> ""],
                 [op |-> "step", outcome |-> "error", error |-> "RuntimeError: not initialised"],
                 [op |-> "apply", outcome |-> "error",
                  error |-> "RuntimeError: no player action pending"]}

\* step() has just raised on an instance that was never reset
C29_Witness ==
  /\ agents = << >>
  /\ event = "step"
  /\ last = Result("step", "error", "RuntimeError: not initialised")

\* the traces of the turn in progress and of all sealed turns
C30_Traces ==
  (IF active_turn_debug = None THEN {}
   ELSE {active_turn_debug[1][k] : k \in 1..Len(active_turn_debug[1])})
  \cup {debug_history[r].debug[k] :
          r \in 1..Len(debug_history), k \in 1..Len(agents)}

\* C30: every action recorded for an agent, which is one that has passed
\* the oracle's legality enforcement or the player's validation, has taken
\* effect as what it is: the note of a move says that the agent moved, never
\* that the move was blocked or had no direction, and the note of a talk
\* says that it was delivered, never that the target was invalid or not
\* adjacent.
C30_LegalActionsTakeEffect ==
  \A t \in C30_Traces :
    t.action # None =>
      /\ t.action[1].action = "move" => t.notes = "Moved."
      /\ t.action[1].action = "talk" => t.notes = "Spoke."
      /\ t.action[1].action = "wait" => t.notes = "Waited."
      /\ t.notes \notin {"Move blocked; stayed in place.",
                        "Move direction missing; waited instead.",
                        "Talk target invalid or not adjacent."}

\* in the second turn the player, after its suspension, has moved next to
\* an agent whose talk was delivered
C30_Witness ==
  /\ Len(debug_history) = 2
  /\ last = Result("apply", "sealed", "")
  /\ debug_history[2].debug[1].action # None
  /\ debug_history[2].debug[1].action[1].action = "talk"
  /\ debug_history[2].debug[1].notes = "Spoke."
  /\ debug_history[2].debug[2].action # None
  /\ debug_history[2].debug[2].action[1].action = "move"
  /\ debug_history[2].debug[2].notes = "Moved."

\* C31: as long as no oracle query has failed, the k-th record of history
\* carries the turn number k: the numbers run from 1 without gap or repeat.
C31_TurnNumbersConsecutive ==
  ~oracle_failed => \A k \in 1..Len(debug_history) : debug_history[k].turn = k

\* the delivered messages of all sealed records, in the order of history
C32_SealedMessages ==
  LET upto[k \in 0..Len(debug_history)] ==
        IF k = 0 THEN << >> ELSE upto[k - 1] \o debug_history[k].turnMessages
  IN  upto[Len(debug_history)]

\* C32: as long as no oracle query has failed, whenever no turn is in
\* progress the conversation log is the delivered messages of the sealed
\* records one after the other, and every message in a record carries the
\* turn number of its record.
C32_LogIsSealedMessages ==
  (/\ ~oracle_failed
   /\ NoCallInFlight
   /\ pending_player = None
   /\ active_turn_messages = None
   /\ active_turn_debug = None)
  => /\ conversation_log = C32_SealedMessages
     /\ \A r \in 1..Len(debug_history) :
          \A m \in 1..Len(debug_history[r].turnMessages) :
            debug_history[r].turnMessages[m].turn = debug_history[r].turn

\* the turn of the counter has been sealed: no step() has started since
C33_TurnSealed ==
  /\ Len(debug_history) > 0
  /\ debug_history[Len(debug_history)].turn = turn

\* C33: while a player decision is pending the accumulated messages and
\* traces of the turn exist, the pending index is that of the agent without
\* controller, the traces are those of the agents up to it and the last of
\* them has no action yet; and once a turn is sealed, until the next step()
\* starts, the accumulated lists are None and nothing is pending.
C33_PendingAndSealedShape ==
  /\ pending_player # None =>
       LET i == pending_player[1].agent_index
       IN  /\ active_turn_messages # None
           /\ active_turn_debug # None
           /\ i \in 1..Len(agents)
           /\ agents[i].controller = None
           /\ \A k \in 1..Len(agents) : agents[k].controller = None => k = i
           /\ Len(active_turn_debug[1]) = i
           /\ active_turn_debug[1][i].action = None
  /\ C33_TurnSealed =>
       /\ active_turn_messages = None
       /\ active_turn_debug = None
       /\ pending_player = None

\* the player's decision is pending in the second turn, the first one sealed
C33_Witness ==
  /\ pending_player # None
  /\ turn = 2
  /\ Len(debug_history) = 1
  /\ debug_history[1].turn = 1
  /\ active_turn_debug[1][1].action # None

\* agent k stands after the step where it stood before it
C34_Stays(k) == agents'[k].x = agents[k].x /\ agents'[k].y = agents[k].y

\* C34: the slot of agent a changes no position but a's own, and that only
\* by a move; of the inboxes it changes a's own, emptied when the slot
\* begins, and that of the agent a talks to, and no other.  (The step that
\* completes the slot of a also begins the slot of the next agent, whose
\* inbox is then emptied as that slot's own effect.)
C34_SlotChangesOnlyItsOwn ==
  [][/\ SlotDone =>
          /\ \A k \in 1..Len(agents) : k # DoneIdx => C34_Stays(k)
          /\ DoneAction.action \in {"wait", "talk"} => C34_Stays(DoneIdx)
          /\ agents'[DoneIdx].inbox = agents[DoneIdx].inbox
          /\ \A k \in 1..Len(agents) :
               (/\ k # DoneIdx
                /\ ~(DoneAction.action = "talk" /\ DoneAction.target = agents[k].name)
                /\ ~(SlotBegun /\ BegunIdx = k))
               => agents'[k].inbox = agents[k].inbox
     /\ (~SlotDone /\ event' # "reset") =>
          /\ \A k \in 1..Len(agents) : C34_Stays(k)
          /\ \A k \in 1..Len(agents) :
               IF SlotBegun /\ BegunIdx = k THEN agents'[k].inbox = None
               ELSE agents'[k].inbox = agents[k].inbox]_vars

\* the player has moved while a message of this turn waits in the inbox of
\* the first agent, sent by the second
C34_Witness ==
  /\ event = "apply"
  /\ last = Result("apply", "sealed", "")
  /\ Len(agents) = 3
  /\ debug_history[Len(debug_history)].debug[3].notes = "Moved."
  /\ debug_history[Len(debug_history)].debug[2].notes = "Spoke."
  /\ agents[1].inbox # None
  /\ agents[1].inbox[1].from = agents[2].name
  /\ agents[2].inbox = None

\* C35: reset(), in whatever state it is called between two calls (a player
\* decision pending, a turn aborted, turns sealed), leaves the turn counter
\* at 0, history and conversation log empty, every inbox empty, nothing
\* pending, no turn begun and the agents on pairwise distinct cells of the
\* grid; the step() that follows is not refused and starts turn 1.
C35_ResetReturnsToIdle ==
  [][/\ event' = "reset" =>
          /\ turn' = 0
          /\ debug_history' = << >>
          /\ conversation_log' = << >>
          /\ pending_player' = None
          /\ active_turn_messages' = None
          /\ active_turn_debug' = None
          /\ NoCallInFlight'
          /\ Len(agents') = num_agents
          /\ \A k \in 1..Len(agents') :
               /\ agents'[k].inbox = None
               /\ agents'[k].x \in 0..(GridSize - 1)
               /\ agents'[k].y \in 0..(GridSize - 1)
               /\ \A j \in 1..Len(agents') :
                    j # k => <<agents'[j].x, agents'[j].y>> # <<agents'[k].x, agents'[k].y>>
     /\ (event' = "step" /\ agents # << >> /\ turn = 0) =>
          /\ turn' = 1
          /\ last'.outcome # "error"
          /\ active_turn_messages' = Some(<< >>)
          /\ active_turn_debug' # None
          /\ Len(active_turn_debug'[1]) = 1
          /\ active_turn_debug'[1][1].agent = agents[1].name
          /\ agents' = agents]_vars

\* the step() after a reset() has started turn 1
C35_Witness ==
  /\ event = "step"
  /\ turn = 1
  /\ last = Result("step", "running", "")
  /\ debug_history = << >>
  /\ conversation_log = << >>
  /\ Len(active_turn_debug[1]) = 1

\* C36: also when step() calls overlap and interleave at their oracle
\* queries, no two agents stand on the same cell and no agent stands outside
\* the grid.
C36_DistinctInGridUnderOverlap ==
  \A k \in 1..Len(agents) :
    /\ agents[k].x \in 0..(GridSize - 1)
    /\ agents[k].y \in 0..(GridSize - 1)
    /\ \A j \in 1..Len(agents) :
         j # k => <<agents[j].x, agents[j].y>> # <<agents[k].x, agents[k].y>>

\* the cell agent i would move to in direction d, on the board as it is
C36_Dest(i, d) == <<agents[i].x + C4_Delta(d)[1], agents[i].y + C4_Delta(d)[2]>>

\* the player has moved while a step() was suspended in its query, and that
\* step()'s oracle now answers with a move to the cell the player stands on,
\* a move of the legal list computed before the player moved
C36_Witness ==
  \E c \in CallIds :
    /\ calls[c].pc = "ready"
    /\ calls[c].reply[1].ok
    /\ ParseAction(calls[c].reply[1].text).value.action = "move"
    /\ ParseAction(calls[c].reply[1].text).value.direction
         \in LegalDirections(calls[c].legal_actions)
    /\ \E k \in 1..Len(agents) :
         /\ k # calls[c].idx
         /\ agents[k].controller = None
         /\ <<agents[k].x, agents[k].y>>
              = C36_Dest(calls[c].idx, ParseAction(calls[c].reply[1].text).value.direction)
    /\ Len(debug_history) > 0
    /\ debug_history[Len(debug_history)].debug[Len(debug_history[Len(debug_history)].debug)].notes
         = "Moved."

\* what the claim gives as the outcome: the action as it is when it is a
\* wait, a move of the legal list or a talk to a target of the legal list,
\* else a wait
C37_Expected(action, legal_actions, outcome) ==
  LET legal == \/ action.action = "wait"
               \/ /\ action.action = "move"
                  /\ \E k \in 1..Len(legal_actions) :
                       legal_actions[k].action = "move"
                         /\ legal_actions[k].direction = action.direction
               \/ /\ action.action = "talk"
                  /\ \E k \in 1..Len(legal_actions) :
                       legal_actions[k].action = "talk" /\ legal_actions[k].target = action.target
  IN  /\ outcome.raised = ""
      /\ IF legal THEN outcome.value = action
         ELSE outcome.value.action = "wait" /\ outcome.value.notes # NULL

\* C37: for every decoded action and every legal list, _enforce_legality of
\* the engine returns what _enforce_legality of the earlier engine returns:
\* the action unchanged when it is a wait or its direction or target is in
\* the list, else a wait with a note.
C37_SameAsEarlierEngine ==
  enforcing.result # None =>
    /\ enforcing.result[1].now = enforcing.result[1].earlier
    /\ C37_Expected(enforcing.action, enforcing.legal_actions, enforcing.result[1].now)

====
